---- MODULE Spec2Model ----
(***************************************************************************)
(* Detection-fusion and validation pipeline of the banking PII service:    *)
(* schema store and validator (backend/main.py), entity fuser and          *)
(* enhanced detect operation (backend/enhanced_main.py), the validated     *)
(* detect operations (backend/main.py, backend/validated_enhanced_main.py),*)
(* the stand-alone detector (enhanced_pii_detector.py) and the anonymizer. *)
(***************************************************************************)
EXTENDS Integers, Sequences, FiniteSets, TLC

VARIABLES
    schema,           \* the schema asset: ordered category -> regex source
    schema_patterns,  \* main.py _schema_patterns (lazily loaded table)
    call,             \* arguments of the last two validate_entity calls
    verdict,          \* verdict of the first call
    verdict2,         \* verdict of the second call (confidence2, and text2 if any)
    strict,           \* the strict validator's verdicts for the two calls
    input,            \* the candidate list as the detectors emitted it
    entities,         \* the list handed to _merge_entities (sorted in place)
                      \* or to _anonymize
    merged,           \* _merge_entities(entities)
    remerged,         \* _merge_entities(merged)
    payload,          \* request of a detect operation or of the anonymizer
    pipes,            \* the two token-classification collaborators
    matches,          \* what the regex library finds for the pattern detectors
    response,         \* response of the operation
    pc,               \* position of the driver
    readable,         \* the schema asset can be opened and parsed
    heap,             \* the global _schema_patterns and the dicts it has named
    requests          \* the concurrent requests that call validate_entity

vars == <<schema, schema_patterns, call, verdict, verdict2, strict,
          input, entities, merged, remerged, payload, pipes, matches,
          response, pc, readable, heap, requests>>

----------------------------------------------------------------------------
(* Bounds *)

MaxCats == 3        \* categories in a schema asset
MaxTextLen == 2     \* length of a text handed to the validator
MaxEntities == 3    \* candidates handed to the fuser
MaxPos == 2         \* length of the document the candidates' spans lie in
MaxResults == 2     \* spans the two collaborators return for one request
MaxPairCats == 2    \* categories in the schema asset of a pair of calls
MaxAnonLen == 3     \* length of a text handed to the anonymizer
MaxRequests == 2    \* concurrent requests that call validate_entity

----------------------------------------------------------------------------
(* Texts and regular expressions *)

Alphabet == {"A", "9"}

Texts == UNION {[1..k -> Alphabet] : k \in 0..MaxTextLen}

\* The characters a regex token accepts.
TokenClass(tok) ==
    CASE tok = "\\d"    -> {"9"}
      [] tok = "[A-Z]"  -> {"A"}
      [] tok = "\\w"    -> {"A", "9"}
      [] OTHER          -> {}

\* re.compile: fails on an unbalanced parenthesis.
Compiles(src) == \A i \in 1..Len(src) : src[i] # "("

None == [compiled |-> FALSE, pattern |-> <<>>]

re_compile(src) == [compiled |-> TRUE, pattern |-> src]

\* Matching of the token sequence toks from token i against t from position j.
RECURSIVE MatchAt(_, _, _, _)
MatchAt(toks, i, t, j) ==
    IF i > Len(toks) THEN TRUE
    ELSE IF toks[i] = "$" THEN j = Len(t) + 1 /\ MatchAt(toks, i + 1, t, j)
    ELSE IF toks[i] = ".*"
         THEN \E k \in j..(Len(t) + 1) : MatchAt(toks, i + 1, t, k)
    ELSE j <= Len(t) /\ t[j] \in TokenClass(toks[i])
         /\ MatchAt(toks, i + 1, t, j + 1)

\* pattern.match(text): the pattern matches a prefix of text.
Match(pattern, text) == MatchAt(pattern.pattern, 1, text, 1)

----------------------------------------------------------------------------
(* Schema store *)

Wildcard == <<".*">>
BadRegex == <<"(">>

\* The categories a schema asset may define and the regex sources it may
\* give each of them.
SchemaCategories == {"PAN", "TELEPHONENUM", "STREET", "CITY", "ACCOUNTNUM"}

RegexChoices(c) ==
    {Wildcard, BadRegex} \cup
    (CASE c = "PAN"          -> {<<"\\d", "\\d", "$">>}
       [] c = "TELEPHONENUM" -> {<<"\\d">>}
       [] c = "STREET"       -> {<<"\\d", "[A-Z]">>}
       [] c = "CITY"         -> {<<"\\w", "\\d">>}
       [] c = "ACCOUNTNUM"   -> {<<"\\d", ".*", "$">>})

IsInjective(s) == \A i, j \in 1..Len(s) : s[i] = s[j] => i = j

CategoryOrders ==
    {s \in UNION {[1..k -> SchemaCategories] : k \in 1..MaxCats} : IsInjective(s)}

Schemas ==
    UNION { { [i \in 1..Len(o) |-> [category |-> o[i], regex |-> f[i]]] :
              f \in {g \in [1..Len(o) -> UNION {RegexChoices(c) : c \in SchemaCategories}] :
                       \A i \in 1..Len(o) : g[i] \in RegexChoices(o[i])} } :
            o \in CategoryOrders }

NotLoaded == [loaded |-> FALSE, table |-> <<>>]

\* The load given up at the first regex that does not compile.
CompileSchema_stops_at_failure(s) ==
    LET bad == {i \in 1..Len(s) : ~Compiles(s[i].regex)}
        n == IF bad = {} THEN Len(s)
             ELSE (CHOOSE i \in bad : \A j \in bad : i <= j) - 1
    IN  [i \in 1..n |-> [category |-> s[i].category, re |-> re_compile(s[i].regex)]]

\* The compiled table, in the asset's order; a regex that does not compile
\* leaves its category in the table with None.
CompileSchema(s) ==
    [i \in 1..Len(s) |->
        [category |-> s[i].category,
         re |-> IF Compiles(s[i].regex) THEN re_compile(s[i].regex) ELSE None]]

load_schema_patterns(cache, s) ==
    IF cache.loaded THEN cache ELSE [loaded |-> TRUE, table |-> CompileSchema(s)]

HasKey(patterns, c) == \E i \in 1..Len(patterns) : patterns[i].category = c

Get(patterns, c) ==
    patterns[CHOOSE i \in 1..Len(patterns) : patterns[i].category = c].re

----------------------------------------------------------------------------
(* Schema validator *)

specific_categories ==
    <<"PAN", "TELEPHONENUM", "AADHAAR", "DRIVERLICENSENUM", "EMAIL", "IFSC",
      "VOTERID", "PASSPORTNUM", "CREDITCARDNUM", "TRANSACTIONID", "GENDER",
      "DATE", "TIME", "AGE", "ZIPCODE", "BUILDINGNUM">>

Min(S) == CHOOSE x \in S : \A y \in S : x <= y

\* The first loop without its test that the pattern compiled.
SpecificHits_unguarded(patterns, text) ==
    {i \in 1..Len(specific_categories) :
        /\ HasKey(patterns, specific_categories[i])
        /\ Match(Get(patterns, specific_categories[i]), text)}

\* First loop: indices of specific_categories that are in the table with a
\* compiled pattern that matches.
SpecificHits(patterns, text) ==
    {i \in 1..Len(specific_categories) :
        /\ HasKey(patterns, specific_categories[i])
        /\ Get(patterns, specific_categories[i]).compiled
        /\ Match(Get(patterns, specific_categories[i]), text)}

\* Second loop: indices of the table, in its order.
TableHits(patterns, text) ==
    {i \in 1..Len(patterns) :
        /\ patterns[i].category # "STREET"
        /\ patterns[i].re.compiled
        /\ patterns[i].re.pattern # Wildcard
        /\ Match(patterns[i].re, text)}

CrossValidated(other, category, confidence) ==
    [valid |-> TRUE,
     reason |-> <<"Cross-validated", other, category>>,
     confidence |-> confidence,
     corrected_category |-> other,
     original_category |-> category]

\* cross_validate that lets a high confidence stand in for a match.
cross_validate_by_confidence(patterns, category, text, confidence) ==
    IF confidence >= 90
    THEN [valid |-> TRUE,
          reason |-> <<"Matches", category>>,
          confidence |-> confidence,
          corrected_category |-> category]
    ELSE IF SpecificHits(patterns, text) # {}
    THEN CrossValidated(specific_categories[Min(SpecificHits(patterns, text))],
                        category, confidence)
    ELSE IF TableHits(patterns, text) # {}
    THEN CrossValidated(patterns[Min(TableHits(patterns, text))].category,
                        category, confidence)
    ELSE [valid |-> FALSE,
          reason |-> <<"Does not match", category, Get(patterns, category).pattern>>,
          confidence |-> confidence]

cross_validate(patterns, category, text, confidence) ==
    IF SpecificHits(patterns, text) # {}
    THEN CrossValidated(specific_categories[Min(SpecificHits(patterns, text))],
                        category, confidence)
    ELSE IF TableHits(patterns, text) # {}
    THEN CrossValidated(patterns[Min(TableHits(patterns, text))].category,
                        category, confidence)
    ELSE [valid |-> FALSE,
          reason |-> <<"Does not match", category, Get(patterns, category).pattern>>,
          confidence |-> confidence]

\* validate_entity that cross-validates a category the table does not have.
validate_entity_unknown_crosschecked(patterns, category, text, confidence) ==
    IF ~HasKey(patterns, category)
    THEN IF SpecificHits(patterns, text) # {}
         THEN CrossValidated(specific_categories[Min(SpecificHits(patterns, text))],
                             category, confidence)
         ELSE [valid |-> FALSE,
               reason |-> <<"Unknown category", category>>,
               confidence |-> confidence]
    ELSE IF ~Get(patterns, category).compiled
    THEN [valid |-> FALSE,
          reason |-> <<"No validation pattern available", category>>,
          confidence |-> confidence]
    ELSE IF Match(Get(patterns, category), text)
    THEN [valid |-> TRUE,
          reason |-> <<"Matches", category>>,
          confidence |-> confidence,
          corrected_category |-> category]
    ELSE cross_validate(patterns, category, text, confidence)

\* validate_entity that tries the priority list before the category itself.
validate_entity_priority_first(patterns, category, text, confidence) ==
    IF ~HasKey(patterns, category)
    THEN [valid |-> FALSE,
          reason |-> <<"Unknown category", category>>,
          confidence |-> confidence]
    ELSE IF ~Get(patterns, category).compiled
    THEN [valid |-> FALSE,
          reason |-> <<"No validation pattern available", category>>,
          confidence |-> confidence]
    ELSE IF /\ SpecificHits(patterns, text) # {}
            /\ specific_categories[Min(SpecificHits(patterns, text))] # category
    THEN CrossValidated(specific_categories[Min(SpecificHits(patterns, text))],
                        category, confidence)
    ELSE IF Match(Get(patterns, category), text)
    THEN [valid |-> TRUE,
          reason |-> <<"Matches", category>>,
          confidence |-> confidence,
          corrected_category |-> category]
    ELSE cross_validate(patterns, category, text, confidence)

\* validate_entity with a confidence cutoff of its own.
validate_entity_with_cutoff(patterns, category, text, confidence) ==
    IF ~HasKey(patterns, category)
    THEN [valid |-> FALSE,
          reason |-> <<"Unknown category", category>>,
          confidence |-> confidence]
    ELSE IF ~Get(patterns, category).compiled
    THEN [valid |-> FALSE,
          reason |-> <<"No validation pattern available", category>>,
          confidence |-> confidence]
    ELSE IF Match(Get(patterns, category), text) /\ confidence >= 50
    THEN [valid |-> TRUE,
          reason |-> <<"Matches", category>>,
          confidence |-> confidence,
          corrected_category |-> category]
    ELSE cross_validate(patterns, category, text, confidence)

validate_entity(patterns, category, text, confidence) ==
    IF ~HasKey(patterns, category)
    THEN [valid |-> FALSE,
          reason |-> <<"Unknown category", category>>,
          confidence |-> confidence]
    ELSE IF ~Get(patterns, category).compiled
    THEN [valid |-> FALSE,
          reason |-> <<"No validation pattern available", category>>,
          confidence |-> confidence]
    ELSE IF Match(Get(patterns, category), text)
    THEN [valid |-> TRUE,
          reason |-> <<"Matches", category>>,
          confidence |-> confidence,
          corrected_category |-> category]
    ELSE cross_validate(patterns, category, text, confidence)

\* The strict validator handing the call to the cross-validating one.
strict_validate_entity_cross_validating(patterns, category, text, confidence) ==
    validate_entity(patterns, category, text, confidence)

\* validated_enhanced_main.py: the strict validator, no cross-validation.
ValidatedEnhancedPIIDetector_validate_entity(patterns, category, text, confidence) ==
    IF ~HasKey(patterns, category)
    THEN [valid |-> FALSE,
          reason |-> <<"Unknown category", category>>,
          confidence |-> confidence]
    ELSE IF ~Get(patterns, category).compiled
    THEN [valid |-> FALSE,
          reason |-> <<"No validation pattern available", category>>,
          confidence |-> confidence]
    ELSE IF Match(Get(patterns, category), text)
    THEN [valid |-> TRUE,
          reason |-> <<"Matches schema pattern">>,
          confidence |-> confidence]
    ELSE [valid |-> FALSE,
          reason |-> <<"Does not match schema pattern", Get(patterns, category).pattern>>,
          confidence |-> confidence]

\* improved_validation.py: the validator of the stand-alone tool, on the
\* table its constructor compiled from the same asset.
ImprovedPIIValidator_validate_entity(validation_patterns, category, text, confidence) ==
    IF ~HasKey(validation_patterns, category)
    THEN [valid |-> FALSE,
          reason |-> <<"Unknown category", category>>,
          confidence |-> confidence]
    ELSE LET pattern == Get(validation_patterns, category)
         IN  IF ~pattern.compiled
             THEN [valid |-> FALSE,
                   reason |-> <<"No validation pattern available", category>>,
                   confidence |-> confidence]
             ELSE IF Match(pattern, text)
             THEN [valid |-> TRUE,
                   reason |-> <<"Matches schema pattern">>,
                   confidence |-> confidence]
             ELSE [valid |-> FALSE,
                   reason |-> <<"Does not match schema pattern", pattern.pattern>>,
                   confidence |-> confidence]

----------------------------------------------------------------------------
(* Values of the variables an operation has not touched *)

NoCall == [category |-> "", text |-> <<>>, confidence |-> 0, confidence2 |-> 0]
NoVerdict == [valid |-> FALSE, reason |-> <<"none">>, confidence |-> 0]
NoPayload == [text |-> <<>>, use_ml |-> FALSE, min_confidence |-> 0]
NoPipes == [bert |-> [loaded |-> FALSE, raises |-> FALSE, results |-> <<>>],
            llama |-> [loaded |-> FALSE, raises |-> FALSE, results |-> <<>>]]
NoMatches == [regex |-> <<>>, contextual |-> <<>>, names |-> <<>>]
NoHeap == [schema_patterns |-> 0, dicts |-> <<>>]
NoRequests == <<>>
NoResponse == [entities |-> <<>>, filtered_entities |-> <<>>,
               summary |-> [total_entities |-> 0, filtered_entities |-> 0,
                            categories_found |-> {}, methods_used |-> <<>>,
                            avg_confidence |-> <<0, 1>>,
                            validation_rate |-> <<0, 1>>]]

----------------------------------------------------------------------------
(* The validator: one validate_entity call on a schema asset *)

\* Confidences in percent.
Confidences == {30, 90}

Init ==
    /\ schema \in Schemas
    /\ schema_patterns = NotLoaded
    /\ call = NoCall
    /\ verdict = NoVerdict
    /\ verdict2 = NoVerdict
    /\ strict = <<NoVerdict, NoVerdict>>
    /\ input = <<>>
    /\ entities = <<>>
    /\ merged = <<>>
    /\ remerged = <<>>
    /\ payload = NoPayload
    /\ pipes = NoPipes
    /\ matches = NoMatches
    /\ response = NoResponse
    /\ pc = "start"
    /\ readable = TRUE
    /\ heap = NoHeap
    /\ requests = NoRequests

\* validate_entity(category, text, confidence), and the same call with
\* confidence2; the first call loads the table.
Validate ==
    /\ pc = "start"
    /\ \E category \in SchemaCategories, text \in Texts,
          confidence \in Confidences, confidence2 \in Confidences :
        /\ confidence # confidence2
        /\ LET patterns == load_schema_patterns(schema_patterns, schema) IN
           /\ schema_patterns' = patterns
           /\ call' = [category |-> category, text |-> text,
                       confidence |-> confidence, confidence2 |-> confidence2]
           /\ verdict' = validate_entity(patterns.table, category, text, confidence)
           /\ verdict2' = validate_entity(patterns.table, category, text, confidence2)
           /\ strict' =
                <<ValidatedEnhancedPIIDetector_validate_entity(
                      patterns.table, category, text, confidence),
                  ValidatedEnhancedPIIDetector_validate_entity(
                      patterns.table, category, text, confidence2)>>
    /\ pc' = "validated"
    /\ UNCHANGED <<readable, heap, requests,
                   schema, input, entities, merged, remerged, payload, pipes,
                   matches, response>>

Next == Validate

Spec == Init /\ [][Next]_vars

\* The schema assets of the paired calls.
InitPair ==
    /\ schema \in {s \in Schemas : Len(s) <= MaxPairCats}
    /\ schema_patterns = NotLoaded
    /\ call = NoCall
    /\ verdict = NoVerdict
    /\ verdict2 = NoVerdict
    /\ strict = <<NoVerdict, NoVerdict>>
    /\ input = <<>>
    /\ entities = <<>>
    /\ merged = <<>>
    /\ remerged = <<>>
    /\ payload = NoPayload
    /\ pipes = NoPipes
    /\ matches = NoMatches
    /\ response = NoResponse
    /\ pc = "start"
    /\ readable = TRUE
    /\ heap = NoHeap
    /\ requests = NoRequests

\* Two validate_entity calls for one category with a usable pattern: text
\* matches it, text2 does not; each call has a confidence of its own.
\* verdict and strict[1] are for text, verdict2 and strict[2] for text2.
ValidatePair ==
    /\ pc = "start"
    /\ LET patterns == load_schema_patterns(schema_patterns, schema) IN
       \E k \in 1..Len(patterns.table) :
        /\ patterns.table[k].re.compiled
        /\ \E text \in {t \in Texts : Match(patterns.table[k].re, t)},
              text2 \in {t \in Texts : ~Match(patterns.table[k].re, t)},
              confidence \in Confidences, confidence2 \in Confidences :
           LET category == patterns.table[k].category IN
           /\ schema_patterns' = patterns
           /\ call' = [category |-> category, text |-> text, text2 |-> text2,
                       confidence |-> confidence, confidence2 |-> confidence2]
           /\ verdict' = validate_entity(patterns.table, category, text, confidence)
           /\ verdict2' = validate_entity(patterns.table, category, text2, confidence2)
           /\ strict' =
                <<ValidatedEnhancedPIIDetector_validate_entity(
                      patterns.table, category, text, confidence),
                  ValidatedEnhancedPIIDetector_validate_entity(
                      patterns.table, category, text2, confidence2)>>
    /\ pc' = "validated_pair"
    /\ UNCHANGED <<readable, heap, requests,
                   schema, input, entities, merged, remerged, payload, pipes,
                   matches, response>>

NextPair == ValidatePair

SpecPair == InitPair /\ [][NextPair]_vars

----------------------------------------------------------------------------
(* Entity fuser *)

Max2(a, b) == IF a >= b THEN a ELSE b
Min2(a, b) == IF a <= b THEN a ELSE b

\* Python's text[start:end].
reconstruct_text_from_tokens(original_text, start, end) ==
    LET n == Len(original_text)
        s == IF start < 0 THEN Max2(n + start, 0) ELSE Min2(start, n)
        e == IF end < 0 THEN Max2(n + end, 0) ELSE Min2(end, n)
    IN  IF s >= e THEN <<>> ELSE SubSeq(original_text, s + 1, e)

\* Insertion of e behind every element whose start is not larger.
RECURSIVE InsertByStart(_, _)
InsertByStart(sorted, e) ==
    IF sorted = <<>> THEN <<e>>
    ELSE IF sorted[Len(sorted)].start <= e.start THEN Append(sorted, e)
    ELSE Append(InsertByStart(SubSeq(sorted, 1, Len(sorted) - 1), e),
                sorted[Len(sorted)])

\* entities.sort(key=lambda x: x['start']): a stable sort.
RECURSIVE SortByStart(_)
SortByStart(es) ==
    IF es = <<>> THEN <<>>
    ELSE InsertByStart(SortByStart(SubSeq(es, 1, Len(es) - 1)), es[Len(es)])

\* Overlaps without the comparison of the categories.
Overlaps_any_category(current, entity) == entity.start < current.end

\* The body of the loop: entity either extends current or closes it.
Overlaps(current, entity) ==
    entity.start < current.end /\ entity.entity_group = current.entity_group

\* Fuse taking the end of the later candidate.
Fuse_last_end(current, entity) ==
    [current EXCEPT !.end = entity.end,
                    !.word = entity.word,
                    !.score = Max2(current.score, entity.score),
                    !.method = current.method \o entity.method]

Fuse(current, entity) ==
    [current EXCEPT !.end = Max2(current.end, entity.end),
                    !.word = entity.word,
                    !.score = Max2(current.score, entity.score),
                    !.method = current.method \o entity.method]

\* MergeLoop without the flush of the open entity.
RECURSIVE MergeLoop_no_flush(_, _, _, _)
MergeLoop_no_flush(es, i, out, current) ==
    IF i > Len(es) THEN out
    ELSE IF Overlaps(current, es[i])
         THEN MergeLoop_no_flush(es, i + 1, out, Fuse(current, es[i]))
         ELSE MergeLoop_no_flush(es, i + 1, Append(out, current), es[i])

\* The loop over entities[i..], with the entities closed so far and the
\* open one; the open one is flushed at the end.
RECURSIVE MergeLoop(_, _, _, _)
MergeLoop(es, i, out, current) ==
    IF i > Len(es) THEN Append(out, current)
    ELSE IF Overlaps(current, es[i])
         THEN MergeLoop(es, i + 1, out, Fuse(current, es[i]))
         ELSE MergeLoop(es, i + 1, Append(out, current), es[i])

merge_entities(es) ==
    IF es = <<>> THEN <<>>
    ELSE MergeLoop(SortByStart(es), 2, <<>>, SortByStart(es)[1])

----------------------------------------------------------------------------
(* The fuser: _merge_entities on a candidate list, then on its own result *)

\* The document the candidates were found in.
DocChars == <<"a", "b", "c", "d", "e", "f">>
Doc == SubSeq(DocChars, 1, MaxPos)

Spans == {sp \in (0..MaxPos) \X (0..MaxPos) : sp[1] < sp[2]}

\* The detectors that emit a category, each with its method tag and the
\* score it gives (in percent): EMAIL comes from the regex detector and the
\* ML adapter, PAN from the ML adapter.
Detectors == {<<"EMAIL", "regex", 95>>, <<"EMAIL", "ml", 60>>, <<"PAN", "ml", 60>>}

FuserCategories == {d[1] : d \in Detectors}

\* A fused method 'a+b' is the sequence of its parts <<a, b>>.
Candidates ==
    {[entity_group |-> d[1], word |-> reconstruct_text_from_tokens(Doc, sp[1], sp[2]),
      start |-> sp[1], end |-> sp[2], score |-> d[3], method |-> <<d[2]>>] :
        sp \in Spans, d \in Detectors}

CandidateLists == UNION {[1..k -> Candidates] : k \in 0..MaxEntities}

InitMerge ==
    /\ schema = <<>>
    /\ schema_patterns = NotLoaded
    /\ call = NoCall
    /\ verdict = NoVerdict
    /\ verdict2 = NoVerdict
    /\ strict = <<NoVerdict, NoVerdict>>
    /\ input \in CandidateLists
    /\ entities = input
    /\ merged = <<>>
    /\ remerged = <<>>
    /\ payload = NoPayload
    /\ pipes = NoPipes
    /\ matches = NoMatches
    /\ response = NoResponse
    /\ pc = "start"
    /\ readable = TRUE
    /\ heap = NoHeap
    /\ requests = NoRequests

\* entities = _merge_entities(entities): the list is sorted in place.
Merge ==
    /\ pc = "start"
    /\ merged' = merge_entities(entities)
    /\ entities' = SortByStart(entities)
    /\ pc' = "merged"
    /\ UNCHANGED <<readable, heap, requests,
                   schema, schema_patterns, call, verdict, verdict2, strict,
                   input, remerged, payload, pipes, matches, response>>

\* _merge_entities applied to the merged list.
Remerge ==
    /\ pc = "merged"
    /\ remerged' = merge_entities(merged)
    /\ merged' = SortByStart(merged)
    /\ pc' = "remerged"
    /\ UNCHANGED <<readable, heap, requests,
                   schema, schema_patterns, call, verdict, verdict2, strict,
                   input, entities, payload, pipes, matches, response>>

NextMerge == Merge \/ Remerge

SpecMerge == InitMerge /\ [][NextMerge]_vars

----------------------------------------------------------------------------
(* ML adapter and the validated detect operation (backend/main.py) *)

\* not text or not text.strip()
IsBlank(text) == \A i \in 1..Len(text) : text[i] = " "

\* A collaborator result r has its values in r.start, r.end and r.score;
\* r.missing holds the fields that are absent or None, r.malformed those
\* whose value int() or float() rejects with ValueError or TypeError.

\* int(r.get(f, 0)) if r.get(f) is not None else 0, and the same with float
\* for the score, for a field that is not malformed.
coerce(r, f) == IF f \in r.missing THEN 0 ELSE r[f]

\* The per-result try block finishes without ValueError or TypeError.
Coercible(r) == r.malformed \ r.missing = {}

\* One collaborator result, normalised.
normalize(r, text) ==
    [entity_group |-> r.entity_group,
     score |-> coerce(r, "score"),
     word |-> reconstruct_text_from_tokens(text, coerce(r, "start"), coerce(r, "end")),
     start |-> coerce(r, "start"),
     end |-> coerce(r, "end")]

\* The normalised results of the results the per-result try block accepts,
\* in their order.
RECURSIVE normalized_results(_, _, _)
normalized_results(results, k, text) ==
    IF k = 0 THEN <<>>
    ELSE IF Coercible(results[k])
         THEN Append(normalized_results(results, k - 1, text),
                     normalize(results[k], text))
         ELSE normalized_results(results, k - 1, text)

\* _predict(pipe, text): ok is FALSE when the call ends in HTTPException.
predict(pipe, text) ==
    IF IsBlank(text) THEN [ok |-> TRUE, results |-> <<>>]
    ELSE IF pipe.raises THEN [ok |-> FALSE, results |-> <<>>]
    ELSE [ok |-> TRUE,
          results |-> normalized_results(pipe.results, Len(pipe.results), text)]

\* all_entities: what the loaded collaborators contribute when use_ml is set;
\* a collaborator whose _predict raises contributes nothing.
collect(p, pl) ==
    LET part(pipe) ==
            IF pl.use_ml /\ pipe.loaded /\ predict(pipe, pl.text).ok
            THEN predict(pipe, pl.text).results ELSE <<>>
    IN  part(p.bert) \o part(p.llama)

\* accepted without the minimum-confidence cutoff.
accepted_any_confidence(validation, confidence, min_confidence) == validation.valid

accepted(validation, confidence, min_confidence) ==
    validation.valid /\ confidence >= min_confidence

\* valid_entity without the correction of the category.
valid_entity_uncorrected(entity, validation) ==
    [entity_group |-> entity.entity_group,
     score |-> entity.score, word |-> entity.word,
     start |-> entity.start, end |-> entity.end,
     validation |-> validation, status |-> "VALID",
     original_category |-> entity.entity_group]

valid_entity(entity, validation) ==
    [entity_group |-> IF "corrected_category" \in DOMAIN validation
                      THEN validation.corrected_category ELSE entity.entity_group,
     score |-> entity.score, word |-> entity.word,
     start |-> entity.start, end |-> entity.end,
     validation |-> validation, status |-> "VALID",
     original_category |-> entity.entity_group]

filtered_entity(entity, validation) ==
    [entity_group |-> entity.entity_group,
     score |-> entity.score, word |-> entity.word,
     start |-> entity.start, end |-> entity.end,
     validation |-> validation, status |-> "FILTERED",
     filter_reason |-> validation.reason]

\* The validation loop over all_entities[i..].
RECURSIVE ValidateLoop(_, _, _, _, _, _)
ValidateLoop(patterns, all_entities, i, min_confidence, valid_entities, filtered_entities) ==
    IF i > Len(all_entities)
    THEN [entities |-> valid_entities, filtered_entities |-> filtered_entities]
    ELSE LET entity == all_entities[i]
             validation == validate_entity(patterns, entity.entity_group,
                                           entity.word, entity.score)
         IN  IF accepted(validation, entity.score, min_confidence)
             THEN ValidateLoop(patterns, all_entities, i + 1, min_confidence,
                               Append(valid_entities, valid_entity(entity, validation)),
                               filtered_entities)
             ELSE ValidateLoop(patterns, all_entities, i + 1, min_confidence,
                               valid_entities,
                               Append(filtered_entities, filtered_entity(entity, validation)))

RECURSIVE SumScores(_, _)
SumScores(es, k) == IF k = 0 THEN 0 ELSE SumScores(es, k - 1) + es[k].score

\* A quotient a / b as the pair <<a, b>>; 0 when the code returns 0.
summary(valid_entities, filtered_entities, pl) ==
    LET total_detected == Len(valid_entities) + Len(filtered_entities) IN
    [total_entities |-> Len(valid_entities),
     filtered_entities |-> Len(filtered_entities),
     categories_found |-> {valid_entities[i].entity_group : i \in 1..Len(valid_entities)},
     methods_used |-> IF pl.use_ml THEN <<"ml">> ELSE <<>>,
     avg_confidence |-> IF valid_entities # <<>>
                        THEN <<SumScores(valid_entities, Len(valid_entities)),
                               Len(valid_entities)>>
                        ELSE <<0, 1>>,
     validation_rate |-> IF total_detected > 0
                         THEN <<Len(valid_entities), total_detected>>
                         ELSE <<0, 1>>]

validated_detect_pii(patterns, all_entities, pl) ==
    IF IsBlank(pl.text)
    THEN [entities |-> <<>>, filtered_entities |-> <<>>,
          summary |-> [total_entities |-> 0, filtered_entities |-> 0,
                       categories_found |-> {}, methods_used |-> <<>>,
                       avg_confidence |-> <<0, 1>>, validation_rate |-> <<0, 1>>]]
    ELSE LET lists == ValidateLoop(patterns, all_entities, 1, pl.min_confidence,
                                   <<>>, <<>>)
         IN  [entities |-> lists.entities,
              filtered_entities |-> lists.filtered_entities,
              summary |-> summary(lists.entities, lists.filtered_entities, pl)]

----------------------------------------------------------------------------
(* The validated detector (backend/validated_enhanced_main.py) *)

\* detect_with_regex: one entity per match of an enhanced pattern.
detect_with_regex(found, text) ==
    [i \in 1..Len(found) |->
        [entity_group |-> found[i].category,
         word |-> SubSeq(text, found[i].start + 1, found[i].end),
         start |-> found[i].start, end |-> found[i].end,
         score |-> 95, method |-> <<"regex_enhanced">>]]

\* detect_contextual_pii: one entity per captured group.
detect_contextual_pii(found, text) ==
    [i \in 1..Len(found) |->
        [entity_group |-> found[i].category,
         word |-> SubSeq(text, found[i].start + 1, found[i].end),
         start |-> found[i].start, end |-> found[i].end,
         score |-> 90, method |-> <<"contextual">>]]

comprehensive_valid(entity, validation) ==
    [entity_group |-> entity.entity_group,
     score |-> entity.score, word |-> entity.word,
     start |-> entity.start, end |-> entity.end, method |-> entity.method,
     validation |-> validation, status |-> "VALID"]

comprehensive_filtered(entity, validation) ==
    [entity_group |-> entity.entity_group,
     score |-> entity.score, word |-> entity.word,
     start |-> entity.start, end |-> entity.end, method |-> entity.method,
     validation |-> validation, status |-> "FILTERED",
     filter_reason |-> validation.reason]

\* The validation loop of detect_comprehensive over es[i..].
RECURSIVE ComprehensiveLoop(_, _, _, _, _, _)
ComprehensiveLoop(patterns, es, i, min_confidence, validated_entities, filtered) ==
    IF i > Len(es)
    THEN [entities |-> validated_entities, filtered_entities |-> filtered]
    ELSE LET entity == es[i]
             validation == ValidatedEnhancedPIIDetector_validate_entity(
                               patterns, entity.entity_group, entity.word, entity.score)
         IN  IF validation.valid /\ entity.score >= min_confidence
             THEN ComprehensiveLoop(patterns, es, i + 1, min_confidence,
                      Append(validated_entities, comprehensive_valid(entity, validation)),
                      filtered)
             ELSE ComprehensiveLoop(patterns, es, i + 1, min_confidence,
                      validated_entities,
                      Append(filtered, comprehensive_filtered(entity, validation)))

\* methods_used is list(set(...)): the set of the methods, in no fixed order.
detect_comprehensive(patterns, found, text, min_confidence) ==
    LET regex_entities == detect_with_regex(found.regex, text)
        contextual_entities == detect_contextual_pii(found.contextual, text)
        lists == ComprehensiveLoop(patterns, regex_entities \o contextual_entities,
                                   1, min_confidence, <<>>, <<>>)
        validated_entities == lists.entities
        filtered_count == Len(lists.filtered_entities)
    IN  [entities |-> validated_entities,
         filtered_entities |-> lists.filtered_entities,
         summary |->
            [total_entities |-> Len(validated_entities),
             filtered_entities |-> filtered_count,
             categories_found |->
                {validated_entities[i].entity_group : i \in 1..Len(validated_entities)},
             methods_used |->
                (IF regex_entities # <<>> THEN {"regex"} ELSE {})
                \cup (IF contextual_entities # <<>> THEN {"contextual"} ELSE {}),
             avg_confidence |->
                IF validated_entities # <<>>
                THEN <<SumScores(validated_entities, Len(validated_entities)),
                       Len(validated_entities)>>
                ELSE <<0, 1>>,
             validation_rate |->
                IF Len(validated_entities) + filtered_count > 0
                THEN <<Len(validated_entities), Len(validated_entities) + filtered_count>>
                ELSE <<0, 1>>]]

----------------------------------------------------------------------------
(* The validated detect operation: one request *)

\* The schema asset of the service the requests go to.
DetectSchema ==
    <<[category |-> "STREET", regex |-> Wildcard],
      [category |-> "PAN", regex |-> <<"\\d", "\\d", "$">>],
      [category |-> "CITY", regex |-> <<"[A-Z]">>],
      [category |-> "ACCOUNTNUM", regex |-> BadRegex]>>

\* The request texts: a blank one and three two-character ones.
DetectTexts == {<<" ">>, <<"9", "9">>, <<"A", "9">>, <<"9", "A">>}

Labels == {"PAN", "CITY", "UNKNOWN"}
Scores == {50, 95}
MinConfidences == {50, 92}

\* The spans a collaborator reports in a two-character text.
DetectSpans == {<<0, 2>>, <<1, 2>>}

\* What a collaborator returns for one span; its own word is a sub-token
\* surface form.
RawResults ==
    {[entity_group |-> l, score |-> sc, start |-> sp[1], end |-> sp[2],
      word |-> <<"#">>, missing |-> {}, malformed |-> {}] :
        l \in Labels, sc \in Scores, sp \in DetectSpans}

Unloaded == [loaded |-> FALSE, raises |-> FALSE, results |-> <<>>]
Raising == [loaded |-> TRUE, raises |-> TRUE, results |-> <<>>]
Returning(r) == [loaded |-> TRUE, raises |-> FALSE, results |-> r]

PipesUpTo(n) ==
    {Unloaded, Raising} \cup
    {Returning(r) : r \in UNION {[1..k -> RawResults] : k \in 0..n}}

PipePairs ==
    {[bert |-> b, llama |-> l] : b \in {Unloaded, Raising}, l \in PipesUpTo(MaxResults)}
    \cup UNION { {[bert |-> Returning(r), llama |-> l] :
                    r \in [1..k -> RawResults], l \in PipesUpTo(MaxResults - k)} :
                 k \in 0..MaxResults }

\* What finditer yields for the patterns of the two pattern detectors, in
\* the order the detectors go through their patterns: no more than
\* MaxResults matches, all of them inside the text.
Finds(text) ==
    {[category |-> l, start |-> sp[1], end |-> sp[2]] :
        l \in Labels, sp \in {x \in DetectSpans : x[2] <= Len(text)}}

MatchLists(text) ==
    UNION { {[regex |-> r, contextual |-> c, names |-> <<>>] :
                r \in [1..k -> Finds(text)],
                c \in UNION {[1..j -> Finds(text)] : j \in 0..(MaxResults - k)}} :
            k \in 0..MaxResults }

\* A request either to the service of backend/main.py, with its two
\* collaborators, or to the detector of validated_enhanced_main.py, with
\* what its patterns find.
InitDetect ==
    /\ schema = DetectSchema
    /\ schema_patterns = NotLoaded
    /\ call = NoCall
    /\ verdict = NoVerdict
    /\ verdict2 = NoVerdict
    /\ strict = <<NoVerdict, NoVerdict>>
    /\ input = <<>>
    /\ entities = <<>>
    /\ merged = <<>>
    /\ remerged = <<>>
    /\ payload \in [text : DetectTexts, use_regex : {TRUE}, use_contextual : {TRUE},
                    use_ml : BOOLEAN, min_confidence : MinConfidences]
    /\ \/ pipes \in PipePairs /\ matches = NoMatches
       \/ pipes = NoPipes /\ matches \in MatchLists(payload.text)
    /\ response = NoResponse
    /\ pc = "start"
    /\ readable = TRUE
    /\ heap = NoHeap
    /\ requests = NoRequests

\* POST /api/validated/detect of backend/main.py; input records all_entities.
ValidatedDetect ==
    /\ pc = "start"
    /\ LET patterns == load_schema_patterns(schema_patterns, schema)
           all_entities == IF IsBlank(payload.text) THEN <<>>
                           ELSE collect(pipes, payload)
       IN  /\ input' = all_entities
           /\ schema_patterns' =
                IF all_entities = <<>> THEN schema_patterns ELSE patterns
           /\ response' = validated_detect_pii(patterns.table, all_entities, payload)
    /\ pc' = "detected"
    /\ UNCHANGED <<readable, heap, requests,
                   schema, call, verdict, verdict2, strict, entities, merged,
                   remerged, payload, pipes, matches>>

\* POST /api/validated/detect of validated_enhanced_main.py; input records
\* the detectors' candidates.
DetectComprehensive ==
    /\ pc = "start"
    /\ input' = detect_with_regex(matches.regex, payload.text)
                  \o detect_contextual_pii(matches.contextual, payload.text)
    /\ response' = detect_comprehensive(CompileSchema(schema), matches,
                                        payload.text, payload.min_confidence)
    /\ pc' = "detected_comprehensive"
    /\ UNCHANGED <<readable, heap, requests,
                   schema, schema_patterns, call, verdict, verdict2, strict,
                   entities, merged, remerged, payload, pipes, matches>>

NextDetect == ValidatedDetect \/ DetectComprehensive

SpecDetect == InitDetect /\ [][NextDetect]_vars

----------------------------------------------------------------------------
(* Anonymizer (backend/main.py and backend/enhanced_main.py, the same code) *)

RECURSIVE InsertByStartReverse(_, _)
InsertByStartReverse(sorted, e) ==
    IF sorted = <<>> THEN <<e>>
    ELSE IF sorted[Len(sorted)].start >= e.start THEN Append(sorted, e)
    ELSE Append(InsertByStartReverse(SubSeq(sorted, 1, Len(sorted) - 1), e),
                sorted[Len(sorted)])

\* The sort in ascending order of start.
SortByStartReverse_ascending(es) == SortByStart(es)

\* sorted(entities, key=lambda x: x["start"], reverse=True): stable,
\* entities with equal start keep their order.
RECURSIVE SortByStartReverse(_)
SortByStartReverse(es) ==
    IF es = <<>> THEN <<>>
    ELSE InsertByStartReverse(SortByStartReverse(SubSeq(es, 1, Len(es) - 1)),
                              es[Len(es)])

\* The loop cutting one character late: redacted[e+1:].
RECURSIVE AnonymizeLoop_late_cut(_, _, _, _)
AnonymizeLoop_late_cut(redacted, sorted_entities, i, replacement) ==
    IF i > Len(sorted_entities) THEN redacted
    ELSE LET s == sorted_entities[i].start
             e == sorted_entities[i].end
         IN  AnonymizeLoop_late_cut(
                 reconstruct_text_from_tokens(redacted, 0, s) \o replacement
                    \o reconstruct_text_from_tokens(redacted, e + 1, Len(redacted)),
                 sorted_entities, i + 1, replacement)

\* redacted = redacted[:s] + replacement + redacted[e:] for sorted_entities[i..].
RECURSIVE AnonymizeLoop(_, _, _, _)
AnonymizeLoop(redacted, sorted_entities, i, replacement) ==
    IF i > Len(sorted_entities) THEN redacted
    ELSE LET s == sorted_entities[i].start
             e == sorted_entities[i].end
         IN  AnonymizeLoop(
                 reconstruct_text_from_tokens(redacted, 0, s) \o replacement
                    \o reconstruct_text_from_tokens(redacted, e, Len(redacted)),
                 sorted_entities, i + 1, replacement)

anonymize(text, ents, replacement) ==
    IF ents = <<>> THEN text
    ELSE AnonymizeLoop(text, SortByStartReverse(ents), 1, replacement)

----------------------------------------------------------------------------
(* The anonymizer: one _anonymize call *)

\* "Call 9876543210 now" and "[REDACTED]", character by character.
CallText ==
    <<"C", "a", "l", "l", " ", "9", "8", "7", "6", "5", "4", "3", "2", "1", "0",
      " ", "n", "o", "w">>
Redacted == <<"[", "R", "E", "D", "A", "C", "T", "E", "D", "]">>

AnonTexts == {SubSeq(DocChars, 1, k) : k \in 0..MaxAnonLen} \cup {CallText}

Replacements == {<<>>, <<"#">>, <<"#", "#">>, Redacted}

\* The spans of entities found in text; for the long text the telephone
\* number only.
AnonSpans(text) ==
    IF text = CallText THEN {[start |-> 5, end |-> 15]}
    ELSE {sp \in [start : 0..Len(text), end : 0..Len(text)] : sp.start < sp.end}

AnonLists(text) == UNION {[1..k -> AnonSpans(text)] : k \in 0..MaxEntities}

InitAnon ==
    /\ schema = <<>>
    /\ schema_patterns = NotLoaded
    /\ call = NoCall
    /\ verdict = NoVerdict
    /\ verdict2 = NoVerdict
    /\ strict = <<NoVerdict, NoVerdict>>
    /\ input = <<>>
    /\ payload \in [text : AnonTexts, replacement : Replacements]
    /\ entities \in AnonLists(payload.text)
    /\ merged = <<>>
    /\ remerged = <<>>
    /\ pipes = NoPipes
    /\ matches = NoMatches
    /\ response = NoResponse
    /\ pc = "start"
    /\ readable = TRUE
    /\ heap = NoHeap
    /\ requests = NoRequests

\* _anonymize(text, entities, replacement); the response carries its result.
Anonymize ==
    /\ pc = "start"
    /\ response' = [entities |-> entities,
                    redacted |-> anonymize(payload.text, entities, payload.replacement)]
    /\ pc' = "anonymized"
    /\ UNCHANGED <<readable, heap, requests,
                   schema, schema_patterns, call, verdict, verdict2, strict, input,
                   entities, merged, remerged, payload, pipes, matches>>

NextAnon == Anonymize

SpecAnon == InitAnon /\ [][NextAnon]_vars

----------------------------------------------------------------------------
(* The enhanced detect operation (backend/enhanced_main.py) *)

\* _predict of enhanced_main.py: an inference error gives no results.
enhanced_predict(pipe, text) ==
    IF IsBlank(text) THEN <<>>
    ELSE IF pipe.raises THEN <<>>
    ELSE LET normalized == normalized_results(pipe.results, Len(pipe.results), text)
         IN  [i \in 1..Len(normalized) |->
                [entity_group |-> normalized[i].entity_group,
                 score |-> normalized[i].score,
                 word |-> normalized[i].word,
                 start |-> normalized[i].start,
                 end |-> normalized[i].end,
                 method |-> <<"ml">>]]

\* detect_name_patterns: the matches of the full-name pattern, then those
\* of the Indian-name pattern.
detect_name_patterns(found, text) ==
    [i \in 1..Len(found) |->
        [entity_group |-> "FULLNAME",
         word |-> SubSeq(text, found[i].start + 1, found[i].end),
         start |-> found[i].start, end |-> found[i].end,
         score |-> IF found[i].pattern = "indian_name_pattern" THEN 95 ELSE 90,
         method |-> <<found[i].pattern>>]]

\* The ML part of enhanced_detect_pii with a collaborator that raises
\* taking the other collaborator's results with it.
enhanced_ml_entities_all_or_nothing(p, pl) ==
    IF ~pl.use_ml THEN <<>>
    ELSE IF (p.bert.loaded /\ p.bert.raises) \/ (p.llama.loaded /\ p.llama.raises)
    THEN <<>>
    ELSE (IF p.bert.loaded THEN enhanced_predict(p.bert, pl.text) ELSE <<>>)
         \o (IF p.llama.loaded THEN enhanced_predict(p.llama, pl.text) ELSE <<>>)

enhanced_ml_entities(p, pl) ==
    IF ~pl.use_ml THEN <<>>
    ELSE (IF p.bert.loaded THEN enhanced_predict(p.bert, pl.text) ELSE <<>>)
         \o (IF p.llama.loaded THEN enhanced_predict(p.llama, pl.text) ELSE <<>>)

\* detect_with_regex and detect_contextual_pii of enhanced_main.py are those
\* of validated_enhanced_main.py.
enhanced_pattern_entities(found, pl) ==
    (IF pl.use_regex THEN detect_with_regex(found.regex, pl.text) ELSE <<>>)
    \o (IF pl.use_contextual
        THEN detect_contextual_pii(found.contextual, pl.text)
             \o detect_name_patterns(found.names, pl.text)
        ELSE <<>>)

enhanced_detect_pii(found, p, pl) ==
    LET regex_entities == IF pl.use_regex
                          THEN detect_with_regex(found.regex, pl.text) ELSE <<>>
        contextual_entities == IF pl.use_contextual
                               THEN detect_contextual_pii(found.contextual, pl.text)
                               ELSE <<>>
        name_entities == IF pl.use_contextual
                         THEN detect_name_patterns(found.names, pl.text) ELSE <<>>
        Reaches(e) == e.score >= pl.min_confidence
        ents == merge_entities(
                    SelectSeq(enhanced_pattern_entities(found, pl)
                                \o enhanced_ml_entities(p, pl), Reaches))
    IN  [entities |-> ents,
         summary |->
            [total_entities |-> Len(ents),
             categories_found |-> {ents[i].entity_group : i \in 1..Len(ents)},
             methods_used |->
                (IF regex_entities # <<>> THEN {"regex"} ELSE {})
                \cup (IF contextual_entities # <<>> THEN {"contextual"} ELSE {})
                \cup (IF name_entities # <<>> THEN {"name_patterns"} ELSE {})
                \cup (IF pl.use_ml /\ p.bert.loaded THEN {"bert"} ELSE {})
                \cup (IF pl.use_ml /\ p.llama.loaded THEN {"llama"} ELSE {}),
             avg_confidence |->
                IF ents # <<>> THEN <<SumScores(ents, Len(ents)), Len(ents)>>
                ELSE <<0, 1>>]]

----------------------------------------------------------------------------
(* The stand-alone detector (enhanced_pii_detector.py) *)

EnhancedPIIDetector_detect_with_regex(found, text) ==
    [i \in 1..Len(found) |->
        [entity_group |-> found[i].category,
         word |-> SubSeq(text, found[i].start + 1, found[i].end),
         start |-> found[i].start, end |-> found[i].end,
         score |-> 90, method |-> <<"regex">>]]

\* detect_with_ml: the collaborator's own word is the entity's word; a
\* value that int() or float() rejects ends the call in the outer except
\* (the results here carry every key).
detect_with_ml(pipe, text, model_type) ==
    IF ~pipe.loaded THEN <<>>
    ELSE IF pipe.raises THEN <<>>
    ELSE IF \E i \in 1..Len(pipe.results) :
               pipe.results[i].malformed # {} \/ pipe.results[i].missing # {}
    THEN <<>>
    ELSE [i \in 1..Len(pipe.results) |->
            [entity_group |-> pipe.results[i].entity_group,
             word |-> pipe.results[i].word,
             start |-> pipe.results[i].start,
             end |-> pipe.results[i].end,
             score |-> pipe.results[i].score,
             method |-> <<model_type>>]]

EnhancedPIIDetector_detect_comprehensive(found, p, text) ==
    LET regex_entities == EnhancedPIIDetector_detect_with_regex(found.regex, text)
        ents == merge_entities(
                    regex_entities
                    \o (IF p.bert.loaded THEN detect_with_ml(p.bert, text, "ml_bert")
                        ELSE <<>>)
                    \o (IF p.llama.loaded THEN detect_with_ml(p.llama, text, "ml_llama")
                        ELSE <<>>))
    IN  [entities |-> ents,
         methods_used |->
            (IF regex_entities # <<>> THEN <<"regex">> ELSE <<>>)
            \o (IF p.bert.loaded THEN <<"bert">> ELSE <<>>)
            \o (IF p.llama.loaded THEN <<"llama">> ELSE <<>>),
         summary |->
            [total_entities |-> Len(ents),
             categories_found |-> {ents[i].entity_group : i \in 1..Len(ents)},
             confidence_scores |-> [i \in 1..Len(ents) |-> ents[i].score],
             methods_used |-> {ents[i].method : i \in 1..Len(ents)},
             avg_confidence |->
                IF ents # <<>> THEN <<SumScores(ents, Len(ents)), Len(ents)>>
                ELSE <<0, 1>>]]

----------------------------------------------------------------------------
(* One request, with its flags, to each of the four detect operations *)

ServiceText == <<"9", "9">>

\* A collaborator is not loaded, raises, or returns one span.
ServicePipes ==
    {Unloaded, Raising}
    \cup {Returning(<<r>>) :
            r \in {x \in RawResults : x.entity_group = "PAN" /\ x.start = 0}}

\* Each pattern family finds nothing or one match.
ServiceMatches ==
    [regex : {<<>>, <<[category |-> "PAN", start |-> 0, end |-> 2]>>},
     contextual : {<<>>, <<[category |-> "PAN", start |-> 0, end |-> 2]>>,
                   <<[category |-> "CITY", start |-> 1, end |-> 2]>>},
     names : {<<>>, <<[start |-> 0, end |-> 2, pattern |-> "name_pattern"]>>}]

InitServices ==
    /\ schema = DetectSchema
    /\ schema_patterns = NotLoaded
    /\ call = NoCall
    /\ verdict = NoVerdict
    /\ verdict2 = NoVerdict
    /\ strict = <<NoVerdict, NoVerdict>>
    /\ input = <<>>
    /\ entities = <<>>
    /\ merged = <<>>
    /\ remerged = <<>>
    /\ payload \in [text : {ServiceText}, use_regex : BOOLEAN, use_contextual : BOOLEAN,
                    use_ml : BOOLEAN, min_confidence : MinConfidences]
    /\ pipes \in [bert : ServicePipes, llama : ServicePipes]
    /\ matches \in ServiceMatches
    /\ response = NoResponse
    /\ pc = "start"
    /\ readable = TRUE
    /\ heap = NoHeap
    /\ requests = NoRequests

\* POST /api/enhanced/detect of enhanced_main.py; input records the
\* candidates before the confidence filter and the fuser.
EnhancedDetect ==
    /\ pc = "start"
    /\ input' = enhanced_pattern_entities(matches, payload)
                  \o enhanced_ml_entities(pipes, payload)
    /\ response' = enhanced_detect_pii(matches, pipes, payload)
    /\ pc' = "enhanced_detected"
    /\ UNCHANGED <<readable, heap, requests,
                   schema, schema_patterns, call, verdict, verdict2, strict,
                   entities, merged, remerged, payload, pipes, matches>>

\* EnhancedPIIDetector.detect_comprehensive(text) of enhanced_pii_detector.py.
DetectorComprehensive ==
    /\ pc = "start"
    /\ input' = EnhancedPIIDetector_detect_with_regex(matches.regex, payload.text)
                  \o detect_with_ml(pipes.bert, payload.text, "ml_bert")
                  \o detect_with_ml(pipes.llama, payload.text, "ml_llama")
    /\ response' = EnhancedPIIDetector_detect_comprehensive(matches, pipes, payload.text)
    /\ pc' = "detector_detected"
    /\ UNCHANGED <<readable, heap, requests,
                   schema, schema_patterns, call, verdict, verdict2, strict,
                   entities, merged, remerged, payload, pipes, matches>>

NextServices ==
    ValidatedDetect \/ DetectComprehensive \/ EnhancedDetect \/ DetectorComprehensive

SpecServices == InitServices /\ [][NextServices]_vars

----------------------------------------------------------------------------
(* The ML adapter: _predict of main.py and of enhanced_main.py, and the
   extract operation of main.py that uses it *)

AdapterTexts == {<<" ">>, <<"A", "9">>}

Fields == {"start", "end", "score"}

\* What a collaborator may report for one span: offsets that are zero,
\* negative, past the end of the text or in the wrong order, and fields
\* that are absent or that int() and float() reject.
AdapterResults ==
    {[entity_group |-> l, score |-> 50, start |-> sp[1], end |-> sp[2],
      word |-> <<"#">>, missing |-> {}, malformed |-> {}] :
        l \in {"PAN", "CITY"},
        sp \in {<<0, 2>>, <<1, 2>>, <<-1, 2>>, <<0, 3>>, <<0, 0>>, <<2, 1>>}}
    \cup
    {[entity_group |-> l, score |-> 50, start |-> 0, end |-> 2,
      word |-> <<"#">>, missing |-> m, malformed |-> {}] :
        l \in {"PAN", "CITY"}, m \in {{"start"}, {"end"}, {"score"}, {"start", "end"}}}
    \cup
    {[entity_group |-> l, score |-> 50, start |-> 0, end |-> 2,
      word |-> <<"#">>, missing |-> {}, malformed |-> {f}] :
        l \in {"PAN", "CITY"}, f \in Fields}

AdapterPipes ==
    {Unloaded, Raising}
    \cup {Returning(r) : r \in UNION {[1..k -> AdapterResults] : k \in 0..MaxResults}}

InitAdapter ==
    /\ schema = <<>>
    /\ schema_patterns = NotLoaded
    /\ call = NoCall
    /\ verdict = NoVerdict
    /\ verdict2 = NoVerdict
    /\ strict = <<NoVerdict, NoVerdict>>
    /\ input = <<>>
    /\ entities = <<>>
    /\ merged = <<>>
    /\ remerged = <<>>
    /\ payload \in [text : AdapterTexts]
    /\ pipes \in [bert : AdapterPipes, llama : {Unloaded}]
    /\ matches = NoMatches
    /\ response = NoResponse
    /\ pc = "start"
    /\ readable = TRUE
    /\ heap = NoHeap
    /\ requests = NoRequests

\* _predict(_bert_pipe, text) of main.py.
Predict ==
    /\ pc = "start"
    /\ pipes.bert.loaded
    /\ response' = predict(pipes.bert, payload.text)
    /\ pc' = "predicted"
    /\ UNCHANGED <<readable, heap, requests,
                   schema, schema_patterns, call, verdict, verdict2, strict,
                   input, entities, merged, remerged, payload, pipes, matches>>

\* _predict(_bert_pipe, text) of enhanced_main.py, which returns in every
\* case.
EnhancedPredict ==
    /\ pc = "start"
    /\ pipes.bert.loaded
    /\ response' = [ok |-> TRUE, results |-> enhanced_predict(pipes.bert, payload.text)]
    /\ pc' = "enhanced_predicted"
    /\ UNCHANGED <<readable, heap, requests,
                   schema, schema_patterns, call, verdict, verdict2, strict,
                   input, entities, merged, remerged, payload, pipes, matches>>

\* extract_pii_bert(payload) of main.py: the HTTPException of _predict is
\* the response of the request.
extract_pii_bert(pipe, pl) ==
    IF ~pipe.loaded THEN [status |-> 503, entities |-> <<>>]
    ELSE IF ~predict(pipe, pl.text).ok THEN [status |-> 500, entities |-> <<>>]
    ELSE [status |-> 200, entities |-> predict(pipe, pl.text).results]

ExtractPiiBert ==
    /\ pc = "start"
    /\ response' = extract_pii_bert(pipes.bert, payload)
    /\ pc' = "extracted"
    /\ UNCHANGED <<readable, heap, requests,
                   schema, schema_patterns, call, verdict, verdict2, strict,
                   input, entities, merged, remerged, payload, pipes, matches>>

\* _merge_entities on what _predict of enhanced_main.py emitted, as
\* enhanced_detect_pii does with the entities of its detectors.
EnhancedMerge ==
    /\ pc = "enhanced_predicted"
    /\ entities' = SortByStart(response.results)
    /\ merged' = merge_entities(response.results)
    /\ pc' = "enhanced_merged"
    /\ UNCHANGED <<readable, heap, requests,
                   schema, schema_patterns, call, verdict, verdict2, strict,
                   input, remerged, payload, pipes, matches, response>>

NextAdapter == Predict \/ EnhancedPredict \/ ExtractPiiBert \/ EnhancedMerge

SpecAdapter == InitAdapter /\ [][NextAdapter]_vars

----------------------------------------------------------------------------
(* The lazy load of main.py under concurrent requests, and the load at the
   startup of validated_enhanced_main.py *)

\* Each request is one call validate_entity(category, text, confidence) in
\* a thread of its own; a step of a request is one statement of
\* _load_schema_patterns, or the body of validate_entity after the load.
Requests == 1..MaxRequests

LoadSchema == SubSeq(DetectSchema, 2, 3)

LoadText == <<"9", "9">>

\* _schema_patterns[category] = value on a dict kept in insertion order.
SetItem(table, category, value) ==
    IF HasKey(table, category)
    THEN [i \in 1..Len(table) |->
            IF table[i].category = category
            THEN [category |-> category, re |-> value] ELSE table[i]]
    ELSE Append(table, [category |-> category, re |-> value])

InitLoad ==
    /\ schema = LoadSchema
    /\ schema_patterns = NotLoaded
    /\ call = NoCall
    /\ verdict = NoVerdict
    /\ verdict2 = NoVerdict
    /\ strict = <<NoVerdict, NoVerdict>>
    /\ input = <<>>
    /\ entities = <<>>
    /\ merged = <<>>
    /\ remerged = <<>>
    /\ payload = NoPayload
    /\ pipes = NoPipes
    /\ matches = NoMatches
    /\ response = NoResponse
    /\ pc = "start"
    /\ readable \in BOOLEAN
    /\ heap = NoHeap
    /\ requests \in [Requests ->
                       {[pc |-> "call", category |-> c, text |-> LoadText, i |-> 0,
                         patterns |-> 0, seen |-> <<>>, verdict |-> NoVerdict] :
                            c \in {"PAN", "CITY"}}]

\* if _schema_patterns is not None: return _schema_patterns
Enter(t) ==
    /\ requests[t].pc = "call"
    /\ requests' = [requests EXCEPT ![t] =
                      IF heap.schema_patterns # 0
                      THEN [@ EXCEPT !.patterns = heap.schema_patterns,
                                     !.pc = "validate"]
                      ELSE [@ EXCEPT !.pc = "open"]]
    /\ UNCHANGED <<readable, heap, schema, schema_patterns, call, verdict, verdict2,
                   strict, input, entities, merged, remerged, payload, pipes,
                   matches, response, pc>>

\* open and json.load, then _schema_patterns = {}; when the asset cannot be
\* read or parsed, the except clause returns a new empty dict and leaves
\* the global None.
Open(t) ==
    /\ requests[t].pc = "open"
    /\ heap' = [schema_patterns |-> IF readable THEN Len(heap.dicts) + 1
                                    ELSE heap.schema_patterns,
                dicts |-> Append(heap.dicts, <<>>)]
    /\ requests' = [requests EXCEPT ![t] =
                      IF readable
                      THEN [@ EXCEPT !.i = 1, !.pc = "compile"]
                      ELSE [@ EXCEPT !.patterns = Len(heap.dicts) + 1,
                                     !.pc = "validate"]]
    /\ UNCHANGED <<readable, schema, schema_patterns, call, verdict, verdict2,
                   strict, input, entities, merged, remerged, payload, pipes,
                   matches, response, pc>>

\* One turn of the loop: _schema_patterns[category] = re.compile(...) or
\* None, on the dict the global names at this moment.
Compile(t) ==
    /\ requests[t].pc = "compile"
    /\ requests[t].i <= Len(schema)
    /\ LET entry == CompileSchema(schema)[requests[t].i]
       IN  heap' = [heap EXCEPT !.dicts[heap.schema_patterns] =
                                    SetItem(@, entry.category, entry.re)]
    /\ requests' = [requests EXCEPT ![t].i = @ + 1]
    /\ UNCHANGED <<readable, schema, schema_patterns, call, verdict, verdict2,
                   strict, input, entities, merged, remerged, payload, pipes,
                   matches, response, pc>>

\* return _schema_patterns, after the loop.
Return(t) ==
    /\ requests[t].pc = "compile"
    /\ requests[t].i > Len(schema)
    /\ requests' = [requests EXCEPT ![t].patterns = heap.schema_patterns,
                                    ![t].pc = "validate"]
    /\ UNCHANGED <<readable, heap, schema, schema_patterns, call, verdict, verdict2,
                   strict, input, entities, merged, remerged, payload, pipes,
                   matches, response, pc>>

\* The body of validate_entity on the dict the load returned; seen is the
\* dict as the request read it.
ValidateEntity(t) ==
    /\ requests[t].pc = "validate"
    /\ requests' = [requests EXCEPT
                      ![t].verdict = validate_entity(heap.dicts[requests[t].patterns],
                                                     requests[t].category,
                                                     requests[t].text, 90),
                      ![t].seen = heap.dicts[requests[t].patterns],
                      ![t].pc = "done"]
    /\ UNCHANGED <<readable, heap, schema, schema_patterns, call, verdict, verdict2,
                   strict, input, entities, merged, remerged, payload, pipes,
                   matches, response, pc>>

\* load_models of validated_enhanced_main.py: the constructor of the
\* detector raises when the asset cannot be read or parsed, the startup
\* handler catches it and goes on with no detector.
LoadModels ==
    /\ pc = "start"
    /\ response' = [started |-> TRUE,
                    validated_detector |->
                        [loaded |-> readable,
                         table |-> IF readable THEN CompileSchema(schema) ELSE <<>>],
                    status |-> 0, verdicts |-> <<>>]
    /\ pc' = "models_loaded"
    /\ UNCHANGED <<readable, heap, requests, schema, schema_patterns, call, verdict,
                   verdict2, strict, input, entities, merged, remerged, payload,
                   pipes, matches>>

\* A validated detect request after the startup: 503 without a detector,
\* else the strict validator runs on the detector's table.
ValidatedRequest ==
    /\ pc = "models_loaded"
    /\ response' =
          IF ~response.validated_detector.loaded
          THEN [response EXCEPT !.status = 503]
          ELSE [response EXCEPT
                  !.status = 200,
                  !.verdicts = <<ValidatedEnhancedPIIDetector_validate_entity(
                                    response.validated_detector.table,
                                    "PAN", LoadText, 90)>>]
    /\ pc' = "served"
    /\ UNCHANGED <<readable, heap, requests, schema, schema_patterns, call, verdict,
                   verdict2, strict, input, entities, merged, remerged, payload,
                   pipes, matches>>

NextLoad ==
    \/ \E t \in Requests :
         Enter(t) \/ Open(t) \/ Compile(t) \/ Return(t) \/ ValidateEntity(t)
    \/ LoadModels
    \/ ValidatedRequest

SpecLoad == InitLoad /\ [][NextLoad]_vars

----------------------------------------------------------------------------
(* The validated anonymize operation of main.py *)

\* A capital letter the CITY pattern of the asset accepts, among the
\* characters "x" and "y" that no pattern is asked about.
RedactTexts == {<<"A", "x", "y">>, <<"x", "A", "y">>}

\* In-range spans under the label CITY, below and above the fixed
\* min_confidence of the operation.
RedactResults ==
    {[entity_group |-> "CITY", score |-> sc, start |-> sp[1], end |-> sp[2],
      word |-> <<"#">>, missing |-> {}, malformed |-> {}] :
        sc \in {30, 95}, sp \in {<<0, 1>>, <<1, 2>>, <<0, 2>>, <<1, 3>>}}

RedactPipesUpTo(n) ==
    {Unloaded, Raising} \cup
    {Returning(r) : r \in UNION {[1..k -> RedactResults] : k \in 0..n}}

RedactPipePairs ==
    {[bert |-> b, llama |-> l] : b \in {Unloaded, Raising}, l \in RedactPipesUpTo(MaxResults)}
    \cup UNION { {[bert |-> Returning(r), llama |-> l] :
                    r \in [1..k -> RedactResults], l \in RedactPipesUpTo(MaxResults - k)} :
                 k \in 0..MaxResults }

InitRedact ==
    /\ schema = DetectSchema
    /\ schema_patterns = NotLoaded
    /\ call = NoCall
    /\ verdict = NoVerdict
    /\ verdict2 = NoVerdict
    /\ strict = <<NoVerdict, NoVerdict>>
    /\ input = <<>>
    /\ entities = <<>>
    /\ merged = <<>>
    /\ remerged = <<>>
    /\ payload \in [text : RedactTexts, replacement : Replacements \ {Redacted}]
    /\ pipes \in RedactPipePairs
    /\ matches = NoMatches
    /\ response = NoResponse
    /\ pc = "start"
    /\ readable = TRUE
    /\ heap = NoHeap
    /\ requests = NoRequests

\* validated_anonymize_pii(payload): validated_detect_pii with every flag
\* set and min_confidence 0.5, then _anonymize on its entities.
validated_anonymize_pii(patterns, p, pl) ==
    LET detection_payload == [text |-> pl.text, use_regex |-> TRUE,
                              use_contextual |-> TRUE, use_ml |-> TRUE,
                              min_confidence |-> 50]
        all_entities == IF IsBlank(pl.text) THEN <<>>
                        ELSE collect(p, detection_payload)
        detection_result == validated_detect_pii(patterns, all_entities,
                                                 detection_payload)
    IN  [entities |-> detection_result.entities,
         filtered_entities |-> detection_result.filtered_entities,
         redacted |-> anonymize(pl.text, detection_result.entities, pl.replacement),
         summary |-> detection_result.summary]

ValidatedAnonymize ==
    /\ pc = "start"
    /\ LET patterns == load_schema_patterns(schema_patterns, schema)
       IN  /\ schema_patterns' = patterns
           /\ response' = validated_anonymize_pii(patterns.table, pipes, payload)
    /\ pc' = "validated_anonymized"
    /\ UNCHANGED <<readable, heap, requests,
                   schema, call, verdict, verdict2, strict, input, entities,
                   merged, remerged, payload, pipes, matches>>

NextRedact == ValidatedAnonymize

SpecRedact == InitRedact /\ [][NextRedact]_vars

----------------------------------------------------------------------------
(* Validator claims *)

Table == schema_patterns.table

\* The call reaches cross-validation: known category, usable pattern, no match.
CrossCase ==
    /\ pc = "validated"
    /\ \E k \in 1..Len(Table) :
          /\ Table[k].category = call.category
          /\ Table[k].re.compiled
          /\ ~Match(Table[k].re, call.text)

\* Positions of the priority list whose category has a usable pattern that
\* matches the text.
PriorityMatches ==
    {i \in 1..Len(specific_categories) :
        \E k \in 1..Len(Table) :
            /\ Table[k].category = specific_categories[i]
            /\ Table[k].re.compiled
            /\ Match(Table[k].re, call.text)}

\* Positions of the table whose pattern is usable, is not the universal
\* wildcard and matches the text.
SpecificMatches ==
    {k \in 1..Len(Table) :
        /\ Table[k].re.compiled
        /\ Table[k].re.pattern # Wildcard
        /\ Match(Table[k].re, call.text)}

\* C1: in cross-validation the corrected category is the first matching
\* category of the priority list; when no priority category matches it is
\* the first category in table order whose (non-wildcard) pattern matches;
\* original_category is the detector's category.
C1_Precedence ==
    CrossCase =>
        IF PriorityMatches # {}
        THEN /\ verdict.valid
             /\ verdict.corrected_category = specific_categories[Min(PriorityMatches)]
             /\ verdict.original_category = call.category
        ELSE SpecificMatches # {} =>
             /\ verdict.valid
             /\ verdict.corrected_category = Table[Min(SpecificMatches)].category
             /\ verdict.original_category = call.category

PatternOf(c) == Table[CHOOSE k \in 1..Len(Table) : Table[k].category = c].re

\* C2: a verdict that names a corrected category other than the detector's
\* never names one whose pattern is the universal wildcard; and a text that
\* matches both a specific and a wildcard category, validated under a wrong
\* original category, is corrected to a specific category it matches.
C2_NeverWildcard ==
    /\ (pc = "validated" /\ verdict.valid /\ "original_category" \in DOMAIN verdict)
          => PatternOf(verdict.corrected_category).pattern # Wildcard
    /\ (CrossCase /\ SpecificMatches # {}
          /\ \E k \in 1..Len(Table) : Table[k].re.pattern = Wildcard)
          => /\ verdict.valid
             /\ \E k \in SpecificMatches :
                   Table[k].category = verdict.corrected_category

\* C3: in cross-validation the verdict is valid exactly when some other
\* category with a usable non-wildcard pattern matches the text, and an
\* invalid verdict's reason carries the original category's pattern source.
C3_ValidIffOtherMatches ==
    CrossCase =>
        /\ verdict.valid <=>
              \E k \in SpecificMatches : Table[k].category # call.category
        /\ ~verdict.valid =>
              verdict.reason = <<"Does not match", call.category,
                                 PatternOf(call.category).pattern>>

\* C10: the two calls, which differ only in confidence, agree on the valid
\* flag and on the corrected and original category, and each verdict
\* carries its own confidence argument, for both validators.
C10_ConfidenceIndependent ==
    pc = "validated" =>
        /\ verdict.valid = verdict2.valid
        /\ DOMAIN verdict = DOMAIN verdict2
        /\ \A f \in DOMAIN verdict \ {"confidence"} : verdict[f] = verdict2[f]
        /\ verdict.confidence = call.confidence
        /\ verdict2.confidence = call.confidence2
        /\ strict[1].valid = strict[2].valid
        /\ DOMAIN strict[1] = DOMAIN strict[2]
        /\ strict[1].confidence = call.confidence
        /\ strict[2].confidence = call.confidence2

\* Every branch of the validator has been taken by the low-confidence call
\* of a pair: here the cross-validated one.
C10_Witness ==
    /\ pc = "validated"
    /\ call.confidence < call.confidence2
    /\ verdict.valid /\ "original_category" \in DOMAIN verdict
    /\ ~strict[1].valid

\* C11 as stated: of two texts, one matching the category's usable pattern
\* and one not, validate_entity gives different valid flags, whatever the
\* two confidences.
C11_DifferentFlags ==
    pc = "validated_pair" => verdict.valid # verdict2.valid

\* C11 amended: the matching text is valid under its own category; the
\* other text is invalid unless it is cross-validated, and then its
\* verdict names the category as original_category and another, matching
\* category as corrected_category; the strict validator gives different
\* flags; all of it whatever the two confidences.
C11_DifferentUnlessCrossValidated ==
    pc = "validated_pair" =>
        /\ verdict.valid
        /\ verdict.corrected_category = call.category
        /\ "original_category" \notin DOMAIN verdict
        /\ verdict2.valid =>
              /\ "original_category" \in DOMAIN verdict2
              /\ verdict2.original_category = call.category
              /\ verdict2.corrected_category # call.category
              /\ Match(PatternOf(verdict2.corrected_category), call.text2)
        /\ strict[1].valid /\ ~strict[2].valid

\* The non-matching text, sent with the lower confidence, is cross-validated
\* to a category with a specific pattern.
C11_Witness ==
    /\ pc = "validated_pair"
    /\ call.confidence2 < call.confidence
    /\ verdict2.valid
    /\ PatternOf(verdict2.corrected_category).pattern # Wildcard

\* The call's category is known and its usable pattern matches the text.
DirectCase ==
    /\ pc = "validated"
    /\ \E k \in 1..Len(Table) :
          /\ Table[k].category = call.category
          /\ Table[k].re.compiled
          /\ Match(Table[k].re, call.text)

\* C12: when the category's own usable pattern matches the text the verdict
\* is valid, corrected_category is the category itself and there is no
\* original_category, also when a priority-list category matches the text.
C12_DirectMatch ==
    DirectCase =>
        /\ verdict.valid
        /\ verdict.corrected_category = call.category
        /\ "original_category" \notin DOMAIN verdict
        /\ verdict.reason = <<"Matches", call.category>>

\* A direct match on a text that a priority-list category, which is not the
\* call's category and comes before it if that is in the list, matches too.
C12_Witness ==
    /\ DirectCase
    /\ PriorityMatches # {}
    /\ specific_categories[Min(PriorityMatches)] # call.category
    /\ PatternOf(specific_categories[Min(PriorityMatches)]).pattern # Wildcard

\* The categories of the table whose regex did not compile.
Unusable == {Table[k].category : k \in {j \in 1..Len(Table) : ~Table[j].re.compiled}}

\* C14: (a) a call on a category whose regex did not compile gets the
\* invalid verdict 'No validation pattern available', whatever the text,
\* from both validators; (b) no valid verdict names such a category as
\* corrected_category.
C14_UnusableNeverValidates ==
    pc = "validated" =>
        /\ call.category \in Unusable =>
              /\ verdict = [valid |-> FALSE,
                            reason |-> <<"No validation pattern available", call.category>>,
                            confidence |-> call.confidence]
              /\ strict[1] = verdict
        /\ verdict.valid => verdict.corrected_category \notin Unusable

\* (a) a call on an unusable category with a text that another category's
\* specific pattern matches.
C14_Witness ==
    /\ pc = "validated"
    /\ call.category \in Unusable
    /\ SpecificMatches # {}

\* (b) cross-validation passes over an unusable priority-list category and
\* corrects to a usable one.
C14_WitnessPassedOver ==
    /\ CrossCase
    /\ verdict.valid
    /\ \E i \in 1..Len(specific_categories) : specific_categories[i] \in Unusable

----------------------------------------------------------------------------
(* Fuser claims *)

SpansOverlap(a, b) == a.start < b.end /\ b.start < a.end

\* C4: the merged list holds no two entities of the same category whose
\* spans overlap.
C4_NoSameCategoryOverlap ==
    pc \in {"merged", "remerged"} =>
        \A i, j \in 1..Len(merged) :
            (i # j /\ merged[i].entity_group = merged[j].entity_group)
                => ~SpansOverlap(merged[i], merged[j])

\* C5: merging the merged list again returns it unchanged, field by field.
C5_Idempotent ==
    pc = "remerged" =>
        /\ Len(remerged) = Len(merged)
        /\ \A k \in 1..Len(merged) :
             /\ remerged[k].entity_group = merged[k].entity_group
             /\ remerged[k].word = merged[k].word
             /\ remerged[k].start = merged[k].start
             /\ remerged[k].end = merged[k].end
             /\ remerged[k].score = merged[k].score
             /\ remerged[k].method = merged[k].method

\* The second merge ran on a list in which candidates had been fused and
\* that still holds several entities.
C5_Witness ==
    /\ pc = "remerged"
    /\ Len(merged) >= 2
    /\ Len(merged) < Len(input)

\* C6: every merged entity's word is the document sliced at the entity's
\* own span.
C6_WordIsSlice ==
    pc \in {"merged", "remerged"} =>
        \A k \in 1..Len(merged) :
            merged[k].word = SubSeq(Doc, merged[k].start + 1, merged[k].end)

\* Scan order: the candidates by start, ties in emission order.
Rank(i) ==
    1 + Cardinality({j \in 1..Len(input) :
            \/ input[j].start < input[i].start
            \/ input[j].start = input[i].start /\ j < i})

Scan == [r \in 1..Len(input) |->
            input[CHOOSE i \in 1..Len(input) : Rank(i) = r]]

MaxOf(S) == CHOOSE x \in S : \A y \in S : x >= y

\* The position in scan order of the first contributor of the fused entity
\* that the candidate at position i of the scanned list es goes into.
RECURSIVE RunStart(_, _)
RunStart(es, i) ==
    IF i = 1 THEN 1
    ELSE LET r == RunStart(es, i - 1) IN
         IF /\ es[i].entity_group = es[r].entity_group
            /\ es[i].start < MaxOf({es[j].end : j \in r..(i - 1)})
         THEN r ELSE i

\* For each scan position, the position its run starts at.
RunStartsOf(es) == [i \in 1..Len(es) |-> RunStart(es, i)]

RECURSIVE JoinMethods(_, _, _)
JoinMethods(es, lo, hi) ==
    IF lo > hi THEN <<>> ELSE es[lo].method \o JoinMethods(es, lo + 1, hi)

\* The fused entities are, in order, what the runs of es give: the start of
\* the first contributor, the largest end and score, the methods joined.
FusedAsClaimed(es, out) ==
    LET rs == RunStartsOf(es)
        starts == {rs[i] : i \in 1..Len(es)}
    IN  /\ Len(out) = Cardinality(starts)
        /\ \A r \in starts :
             LET k == Cardinality({y \in starts : y <= r})
                 run == {i \in 1..Len(es) : rs[i] = r}
             IN  /\ out[k].start = es[r].start
                 /\ \A i \in run : out[k].start <= es[i].start
                 /\ out[k].end = MaxOf({es[i].end : i \in run})
                 /\ out[k].score = MaxOf({es[i].score : i \in run})
                 /\ out[k].method = JoinMethods(es, r, MaxOf(run))

\* C7: the candidates are scanned by start, ties in emission order; a fused
\* entity starts where its first contributor in scan order starts, ends at
\* the largest end and has the largest score of its contributors, and its
\* method joins their methods in scan order.
C7_FusedFields ==
    pc = "merged" => (entities = Scan /\ FusedAsClaimed(entities, merged))

\* A regex candidate and an ml candidate on the same span and category,
\* emitted in that order, are fused into one entity with method regex+ml.
C7_Witness ==
    /\ pc = "merged"
    /\ Len(input) = 2
    /\ input[1].method = <<"regex">> /\ input[2].method = <<"ml">>
    /\ input[1].start = input[2].start /\ input[1].end = input[2].end
    /\ Len(merged) = 1
    /\ merged[1].method = <<"regex", "ml">>

CountOf(seq, c) == Cardinality({i \in 1..Len(seq) : seq[i].entity_group = c})

RECURSIVE Contributors(_, _, _)
Contributors(seq, k, c) ==
    IF k = 0 THEN 0
    ELSE Contributors(seq, k - 1, c) +
         (IF seq[k].entity_group = c THEN Len(seq[k].method) ELSE 0)

\* C8: candidates of different categories are never fused: the fused
\* entities of a category have as many contributors as there are candidates
\* of that category, every category of the input keeps an entity of its own,
\* and two candidates of different categories come out as they went in.
C8_NoCrossCategoryMerge ==
    pc = "merged" =>
        /\ \A c \in FuserCategories :
             /\ Contributors(merged, Len(merged), c) = CountOf(input, c)
             /\ CountOf(input, c) > 0 => CountOf(merged, c) > 0
        /\ (Len(input) = 2 /\ input[1].entity_group # input[2].entity_group)
             => merged = Scan

\* Two candidates on the same span with different categories stay apart.
C8_Witness ==
    /\ pc = "merged"
    /\ Len(input) = 2
    /\ input[1].entity_group # input[2].entity_group
    /\ input[1].start = input[2].start /\ input[1].end = input[2].end
    /\ Len(merged) = 2

----------------------------------------------------------------------------
(* Detect claims *)

\* What the detectors said of a response entry: its category as detected,
\* score, word and span.
AsDetected(e, category) ==
    [entity_group |-> category, score |-> e.score, word |-> e.word,
     start |-> e.start, end |-> e.end]

\* The verdict the operation that ran asks for on candidate c.
VerdictOn(c) ==
    IF pc = "detected"
    THEN validate_entity(Table, c.entity_group, c.word, c.score)
    ELSE ValidatedEnhancedPIIDetector_validate_entity(
             CompileSchema(schema), c.entity_group, c.word, c.score)

Passes(c) ==
    /\ VerdictOn(c).valid
    /\ c.score >= payload.min_confidence

RECURSIVE Select(_, _, _)
Select(cands, k, keep) ==
    IF k = 0 THEN <<>>
    ELSE IF Passes(cands[k]) = keep
         THEN Append(Select(cands, k - 1, keep), cands[k])
         ELSE Select(cands, k - 1, keep)

\* The category a result entity was detected under.
DetectedAs(e) ==
    IF "original_category" \in DOMAIN e THEN e.original_category ELSE e.entity_group

\* C9: in both validated detect operations every candidate is in exactly one
\* result list, in entities exactly when its verdict is valid and its
\* confidence reaches min_confidence, otherwise in filtered_entities with
\* its detected category and a filter_reason; the summary counts are the
\* list lengths.
C9_Partition ==
    pc \in {"detected", "detected_comprehensive"} =>
        LET ents == response.entities
            filt == response.filtered_entities
            cands == [k \in 1..Len(input) |-> AsDetected(input[k], input[k].entity_group)]
        IN  /\ [k \in 1..Len(ents) |-> AsDetected(ents[k], DetectedAs(ents[k]))]
                 = Select(cands, Len(cands), TRUE)
            /\ [k \in 1..Len(filt) |-> AsDetected(filt[k], filt[k].entity_group)]
                 = Select(cands, Len(cands), FALSE)
            /\ \A k \in 1..Len(ents) :
                 ents[k].validation.valid /\ ents[k].score >= payload.min_confidence
            /\ \A k \in 1..Len(filt) :
                 /\ ~(filt[k].validation.valid /\ filt[k].score >= payload.min_confidence)
                 /\ "original_category" \notin DOMAIN filt[k]
                 /\ filt[k].filter_reason = filt[k].validation.reason
            /\ Len(ents) + Len(filt) = Len(input)
            /\ response.summary.total_entities = Len(ents)
            /\ response.summary.filtered_entities = Len(filt)

\* A request with a candidate in each list, one of them valid but below
\* min_confidence.
C9_Witness ==
    /\ pc = "detected"
    /\ Len(response.entities) >= 1
    /\ \E k \in 1..Len(response.filtered_entities) :
          response.filtered_entities[k].validation.valid

\* The same for the detector of validated_enhanced_main.py: a contextual
\* match that is valid but below min_confidence next to an accepted one.
C9_WitnessComprehensive ==
    /\ pc = "detected_comprehensive"
    /\ Len(response.entities) >= 1
    /\ \E k \in 1..Len(response.filtered_entities) :
          response.filtered_entities[k].validation.valid

\* The candidates of es whose category the schema table does not have.
UnknownOf(es) ==
    LET IsUnknown(e) == ~HasKey(CompileSchema(schema), e.entity_group)
    IN  SelectSeq(es, IsUnknown)

\* C13: a candidate whose category is not in the schema table is in
\* filtered_entities, under its category, with an invalid verdict whose
\* reason is 'Unknown category' and is the filter_reason; it is never
\* corrected to a category its text happens to match.
C13_UnknownFiltered ==
    pc \in {"detected", "detected_comprehensive"} =>
        LET ents == response.entities
            filt == response.filtered_entities
            detected(es) == [k \in 1..Len(es) |-> AsDetected(es[k], es[k].entity_group)]
        IN  /\ \A k \in 1..Len(ents) :
                  HasKey(CompileSchema(schema), DetectedAs(ents[k]))
            /\ detected(UnknownOf(filt)) = detected(UnknownOf(input))
            /\ \A k \in 1..Len(filt) :
                  ~HasKey(CompileSchema(schema), filt[k].entity_group) =>
                     /\ filt[k].validation =
                          [valid |-> FALSE,
                           reason |-> <<"Unknown category", filt[k].entity_group>>,
                           confidence |-> filt[k].score]
                     /\ filt[k].filter_reason = filt[k].validation.reason

\* A collaborator labelled a text UNKNOWN that matches the PAN pattern and
\* reaches min_confidence; it is filtered.
C13_Witness ==
    /\ pc = "detected"
    /\ \E k \in 1..Len(response.filtered_entities) :
          LET e == response.filtered_entities[k] IN
          /\ e.entity_group = "UNKNOWN"
          /\ Match(Get(CompileSchema(schema), "PAN"), e.word)
          /\ e.score >= payload.min_confidence

\* How many of the candidates in input come from the first detector that
\* ran: the first collaborator, or the regex detector.
FromFirst ==
    IF pc = "detected"
    THEN Len(collect([bert |-> pipes.bert, llama |-> Unloaded], payload))
    ELSE Len(matches.regex)

\* C17: the candidates pass through the fuser before they are validated:
\* when two candidates of different detectors have the same category and
\* overlapping spans, the response holds one entity for them, so fewer
\* entities than there were candidates.
C17_FusedBeforeValidation ==
    pc \in {"detected", "detected_comprehensive"} =>
        \A i \in 1..FromFirst : \A j \in (FromFirst + 1)..Len(input) :
            (input[i].entity_group = input[j].entity_group
               /\ SpansOverlap(input[i], input[j]))
            => Len(response.entities) + Len(response.filtered_entities) < Len(input)

----------------------------------------------------------------------------
(* Claims on the detect operations and their flags *)

\* Every entity of the response, accepted or filtered.
Reported ==
    response.entities \o
    (IF "filtered_entities" \in DOMAIN response THEN response.filtered_entities ELSE <<>>)

\* The method tags of an entity; main.py's entities carry none and all come
\* from the collaborators.
TagsOf(e) ==
    IF "method" \in DOMAIN e THEN {e.method[i] : i \in 1..Len(e.method)} ELSE {"ml"}

FamilyOf(tag) ==
    CASE tag = "regex_enhanced" -> "regex"
      [] tag \in {"contextual", "name_pattern", "indian_name_pattern"} -> "contextual"
      [] OTHER -> "ml"

Selected(family) ==
    CASE family = "regex" -> payload.use_regex
      [] family = "contextual" -> payload.use_contextual
      [] OTHER -> payload.use_ml

\* Candidate span c is in the response under its category with tag.
Included(c, tag) ==
    \E k \in 1..Len(Reported) :
        /\ DetectedAs(Reported[k]) = c.entity_group
        /\ Reported[k].start <= c.start /\ c.end <= Reported[k].end
        /\ tag \in TagsOf(Reported[k])

\* What the families find for the request: the spans of the collaborators
\* that are loaded and do not raise, and the pattern matches.
MlFound ==
    LET part(pipe) == IF pipe.loaded /\ ~pipe.raises THEN pipe.results ELSE <<>>
    IN  part(pipes.bert) \o part(pipes.llama)

\* The operations that take the flags.
Flagged == {"detected", "detected_comprehensive", "enhanced_detected"}

\* An operation without a confidence filter of its own reports every
\* candidate; enhanced_detect_pii drops those below min_confidence.
Due(c) == pc = "enhanced_detected" => c.score >= payload.min_confidence

\* C18: no entity of the response comes from a family whose flag is false,
\* and the candidates of a family whose flag is true and which is available
\* to the operation are in the response.
C18_FlagsSelectFamilies ==
    pc \in Flagged =>
        /\ \A k \in 1..Len(Reported) : \A tag \in TagsOf(Reported[k]) :
              Selected(FamilyOf(tag))
        /\ payload.use_ml =>
              \A k \in 1..Len(MlFound) : Due(MlFound[k]) => Included(MlFound[k], "ml")
        /\ (payload.use_regex /\ pc # "detected") =>
              \A k \in 1..Len(matches.regex) :
                 Included([entity_group |-> matches.regex[k].category,
                           start |-> matches.regex[k].start,
                           end |-> matches.regex[k].end], "regex_enhanced")
        /\ (payload.use_contextual /\ pc # "detected") =>
              \A k \in 1..Len(matches.contextual) :
                 Due([score |-> 90]) =>
                    Included([entity_group |-> matches.contextual[k].category,
                              start |-> matches.contextual[k].start,
                              end |-> matches.contextual[k].end], "contextual")

\* An entity one collaborator span gave rise to, not fused with another.
FromOneSpan(e) ==
    TagsOf(e) \subseteq {"ml", "ml_bert", "ml_llama"}
    /\ ("method" \in DOMAIN e => Len(e.method) = 1)

\* C19: the word of an entity that comes from a collaborator's span is the
\* request text between the span's offsets, never the collaborator's own
\* word.
C19_WordIsRequestSlice ==
    pc \in Flagged \cup {"detector_detected"} =>
        \A k \in 1..Len(Reported) :
            FromOneSpan(Reported[k]) =>
                /\ Reported[k].word =
                     reconstruct_text_from_tokens(payload.text, Reported[k].start,
                                                  Reported[k].end)
                /\ \A i \in 1..Len(MlFound) : Reported[k].word # MlFound[i].word

\* A collaborator that contributes nothing: not loaded, or raising.
Failed(pipe) == ~pipe.loaded \/ pipe.raises

\* The category and offsets of the candidates in es.
SpansOf(es) ==
    [k \in 1..Len(es) |->
        [entity_group |-> es[k].entity_group, start |-> es[k].start, end |-> es[k].end]]

\* The request served with the use_ml flag off.
WithoutMl == [payload EXCEPT !.use_ml = FALSE]

\* C20: when a collaborator is not loaded or raises, the request has its
\* response all the same; the candidates are those of the pattern detectors
\* followed by those of the collaborators that did not fail, and when both
\* failed the entities are those of the request with ML disabled.
C20_FailedCollaboratorContributesNothing ==
    (pc \in {"detected", "enhanced_detected"} /\ payload.use_ml
       /\ (Failed(pipes.bert) \/ Failed(pipes.llama))) =>
        /\ "entities" \in DOMAIN response
        /\ response.summary.total_entities = Len(response.entities)
        /\ SpansOf(input) =
             SpansOf(IF pc = "detected" THEN <<>>
                     ELSE enhanced_pattern_entities(matches, payload))
             \o SpansOf(MlFound)
        /\ (Failed(pipes.bert) /\ Failed(pipes.llama)) =>
              response.entities =
                 IF pc = "detected"
                 THEN validated_detect_pii(Table, <<>>, WithoutMl).entities
                 ELSE enhanced_detect_pii(matches, pipes, WithoutMl).entities

\* The first collaborator raises, the second returns a span, and a pattern
\* detector has a match: the response holds an entity.
C20_Witness ==
    /\ pc = "enhanced_detected"
    /\ payload.use_ml /\ payload.use_regex
    /\ pipes.bert.raises
    /\ MlFound # <<>>
    /\ matches.regex # <<>>
    /\ response.entities # <<>>

\* Both collaborators fail and the pattern candidates are reported.
C20_WitnessBothFailed ==
    /\ pc = "enhanced_detected"
    /\ payload.use_ml
    /\ pipes.bert.raises /\ ~pipes.llama.loaded
    /\ response.entities # <<>>

----------------------------------------------------------------------------
(* Anonymizer claims *)

NonOverlapping(es) ==
    \A i, j \in 1..Len(es) : i # j => ~SpansOverlap(es[i], es[j])

\* The text from position i (counted from 0) on, with every span of es
\* replaced by R and every other character kept.
RECURSIVE Replaced(_, _, _, _)
Replaced(text, es, R, i) ==
    IF i >= Len(text) THEN <<>>
    ELSE IF \E k \in 1..Len(es) : es[k].start = i
         THEN LET k == CHOOSE k \in 1..Len(es) : es[k].start = i
              IN  R \o Replaced(text, es, R, es[k].end)
         ELSE <<text[i + 1]>> \o Replaced(text, es, R, i + 1)

\* C15: for pairwise non-overlapping in-range spans, in any order,
\* _anonymize returns the text with exactly each span replaced by R and
\* every other character in place; an empty list leaves the text unchanged;
\* "Call 9876543210 now" with [5,15) becomes "Call [REDACTED] now".
C15_ReplacesSpans ==
    pc = "anonymized" =>
        /\ NonOverlapping(entities) =>
              response.redacted = Replaced(payload.text, entities, payload.replacement, 0)
        /\ entities = <<>> => response.redacted = payload.text
        /\ (payload.text = CallText /\ payload.replacement = Redacted
              /\ entities = <<[start |-> 5, end |-> 15]>>)
              => response.redacted =
                    <<"C", "a", "l", "l", " ">> \o Redacted \o <<" ", "n", "o", "w">>

\* Two non-adjacent, non-overlapping spans given in ascending order of start,
\* with a replacement longer than either.
C15_Witness ==
    /\ pc = "anonymized"
    /\ Len(entities) = 2
    /\ NonOverlapping(entities)
    /\ entities[1].start < entities[2].start
    /\ entities[1].end < entities[2].start
    /\ Len(payload.replacement) = 2

RECURSIVE SumSpans(_, _)
SumSpans(es, k) ==
    IF k = 0 THEN 0 ELSE SumSpans(es, k - 1) + (es[k].end - es[k].start)

\* C16: for pairwise non-overlapping in-range spans the result's length is
\* len(text) - sum(end - start) + len(entities) * len(R).
C16_Length ==
    (pc = "anonymized" /\ NonOverlapping(entities)) =>
        Len(response.redacted) =
            Len(payload.text) - SumSpans(entities, Len(entities))
                + Len(entities) * Len(payload.replacement)

\* Two non-overlapping spans and a replacement of another length than theirs.
C16_Witness ==
    /\ pc = "anonymized"
    /\ Len(entities) >= 2
    /\ NonOverlapping(entities)
    /\ \A k \in 1..Len(entities) :
          entities[k].end - entities[k].start # Len(payload.replacement)


----------------------------------------------------------------------------
(* Claims on the ML adapter *)

\* The results the adapter handed back, whichever operation ran.
Emitted ==
    IF pc \in {"predicted", "enhanced_predicted", "enhanced_merged"}
    THEN response.results
    ELSE IF pc = "extracted" THEN response.entities
    ELSE <<>>

AdapterRan == pc \in {"predicted", "enhanced_predicted", "extracted"}

\* C21: when the collaborator call itself raises, _predict returns an empty
\* list and no exception leaves it, and the request that uses the adapter
\* does not fail because of it.
C21_FailureNotPropagated ==
    (AdapterRan /\ pipes.bert.loaded /\ pipes.bert.raises) =>
        /\ pc \in {"predicted", "enhanced_predicted"} =>
              (response.ok /\ response.results = <<>>)
        /\ pc = "extracted" =>
              (response.status = 200 /\ response.entities = <<>>)

OffsetsCoercible(r) == r.malformed \cap {"start", "end"} = {}

\* C22: a result whose start or end cannot be coerced to an integer is
\* dropped without raising, and all the other results of the call are
\* emitted in their original order.
C22_OnlyBadOffsetsDropped ==
    (AdapterRan /\ pipes.bert.loaded /\ ~pipes.bert.raises
       /\ ~IsBlank(payload.text)) =>
        LET kept == SelectSeq(pipes.bert.results, OffsetsCoercible)
        IN  /\ pc = "extracted" => response.status = 200
            /\ pc # "extracted" => response.ok
            /\ Len(Emitted) = Len(kept)
            /\ \A i \in 1..Len(kept) :
                 /\ Emitted[i].entity_group = kept[i].entity_group
                 /\ Emitted[i].start = coerce(kept[i], "start")
                 /\ Emitted[i].end = coerce(kept[i], "end")

\* C23: a result whose score is missing, or present and not coercible to a
\* float, is kept and emitted with score 0.0; every score the collaborators
\* report here is positive, so the entities with score 0 are exactly those
\* results.
C23_BadScoreIsZero ==
    (AdapterRan /\ pipes.bert.loaded /\ ~pipes.bert.raises
       /\ ~IsBlank(payload.text)) =>
        LET results == pipes.bert.results
            defaulted == {i \in 1..Len(results) :
                            /\ OffsetsCoercible(results[i])
                            /\ "score" \in results[i].missing \cup results[i].malformed}
            zero == {i \in 1..Len(Emitted) : Emitted[i].score = 0}
        IN  Cardinality(zero) = Cardinality(defaulted)

\* C24: every entity emitted by the adapter or by the fuser has
\* 0 <= start < end <= len(text), whatever the collaborator reported for
\* the offsets.
C24_SpansInRange ==
    LET InRange(e) == 0 <= e.start /\ e.start < e.end /\ e.end <= Len(payload.text)
    IN  /\ \A i \in 1..Len(Emitted) : InRange(Emitted[i])
        /\ pc = "enhanced_merged" => \A i \in 1..Len(merged) : InRange(merged[i])


----------------------------------------------------------------------------
(* Claims on the load of the schema store *)

Done(t) == requests[t].pc = "done"

\* C25: under any interleaving of requests that call validate_entity, the
\* first ones included, every call observes the complete table: a category
\* of the asset is never reported as an unknown category, the table is
\* populated at most once, and it is not modified after a request has
\* started reading it.
C25_CompleteTableObserved ==
    readable =>
        /\ \A t \in Requests :
             (Done(t) /\ HasKey(CompileSchema(schema), requests[t].category)) =>
                 requests[t].verdict.reason[1] # "Unknown category"
        /\ Len(heap.dicts) <= 1
        /\ \A t \in Requests :
             Done(t) => heap.dicts[requests[t].patterns] = requests[t].seen

\* C26: when the asset cannot be read or parsed, the load ends in an error
\* that reaches the caller: no table is returned, no validate call runs
\* against an empty or partial table, and the startup does not go on.
C26_LoadErrorPropagates ==
    ~readable =>
        /\ \A t \in Requests :
             /\ requests[t].patterns = 0
             /\ requests[t].pc \notin {"validate", "done"}
        /\ pc \in {"models_loaded", "served"} =>
             (~response.started /\ response.verdicts = <<>>)


\* The categories of the asset whose regex does not compile.
Failing == {k \in 1..Len(schema) : ~Compiles(schema[k].regex)}

\* The asset with a well-formed regex r for its k-th category.
Repaired(k, r) == [schema EXCEPT ![k].regex = r]

WellFormed(c) == {r \in RegexChoices(c) : Compiles(r)}

\* The load completed: every category of the asset is in the table, in the
\* asset's order, a failing one with None and every other one with its
\* compiled pattern.
LoadCompleted ==
    /\ schema_patterns.loaded
    /\ Len(schema_patterns.table) = Len(schema)
    /\ \A j \in 1..Len(schema) :
         /\ schema_patterns.table[j].category = schema[j].category
         /\ schema_patterns.table[j].re =
               IF j \in Failing THEN None ELSE re_compile(schema[j].regex)

\* Both validators give the call the verdicts they give it with the table
\* of the repaired asset.
SameVerdicts(k, r) ==
    /\ verdict = validate_entity(CompileSchema(Repaired(k, r)), call.category,
                                 call.text, call.confidence)
    /\ strict[1] = ValidatedEnhancedPIIDetector_validate_entity(
                      CompileSchema(Repaired(k, r)), call.category,
                      call.text, call.confidence)

Improved ==
    ImprovedPIIValidator_validate_entity(Table, call.category, call.text,
                                         call.confidence)

\* C28: the strict validator (ImprovedPIIValidator.validate_entity and
\* ValidatedEnhancedPIIDetector.validate_entity) answers valid exactly when
\* the entity's own category is known, has a usable pattern and the pattern
\* matches the text from the start, and its verdict never names another
\* category; so a value that is well-formed for another category is invalid.
C28_StrictNeverReassigns ==
    pc = "validated" =>
        /\ strict[1].valid <=> DirectCase
        /\ Improved.valid <=> DirectCase
        /\ DOMAIN strict[1] = {"valid", "reason", "confidence"}
        /\ DOMAIN Improved = {"valid", "reason", "confidence"}
        /\ (CrossCase /\ SpecificMatches # {}) => (~strict[1].valid /\ ~Improved.valid)

\* A mislabelled value that is well-formed for another category: main.py
\* corrects it, the strict validator rejects it.
C28_Witness ==
    /\ CrossCase
    /\ verdict.valid
    /\ verdict.corrected_category # call.category
    /\ ~strict[1].valid
    /\ ~Improved.valid


----------------------------------------------------------------------------
(* Claims on the validated responses of main.py *)

\* C29: every entity in the entities list of the validated detect response
\* has a score that reaches min_confidence and an entity_group (the
\* corrected category when cross-validation reassigned it) that is in the
\* table with a usable pattern that matches the entity's word from the
\* start; a verdict that carries original_category has a different
\* corrected_category.
C29_EntitiesSound ==
    pc = "detected" =>
        \A k \in 1..Len(response.entities) :
            LET e == response.entities[k] IN
            /\ e.score >= payload.min_confidence
            /\ HasKey(Table, e.entity_group)
            /\ Get(Table, e.entity_group).compiled
            /\ Match(Get(Table, e.entity_group), e.word)
            /\ "original_category" \in DOMAIN e.validation =>
                  e.validation.corrected_category # e.validation.original_category

\* An accepted entity that cross-validation reassigned.
C29_Witness ==
    /\ pc = "detected"
    /\ \E k \in 1..Len(response.entities) :
          /\ "original_category" \in DOMAIN response.entities[k].validation
          /\ response.entities[k].entity_group
                # response.entities[k].original_category


\* The characters of text at the positions (counted from 0) that lie in no
\* span of es, in order.
RECURSIVE Outside(_, _, _)
Outside(text, es, i) ==
    IF i >= Len(text) THEN <<>>
    ELSE IF \E k \in 1..Len(es) : es[k].start <= i /\ i < es[k].end
         THEN Outside(text, es, i + 1)
         ELSE <<text[i + 1]>> \o Outside(text, es, i + 1)

\* sub is what is left of seq after deleting some of its elements.
RECURSIVE IsSubsequence(_, _)
IsSubsequence(sub, seq) ==
    IF sub = <<>> THEN TRUE
    ELSE IF seq = <<>> THEN FALSE
    ELSE IF sub[1] = seq[1] THEN IsSubsequence(Tail(sub), Tail(seq))
    ELSE IsSubsequence(sub, Tail(seq))

\* C30: in the validated anonymize operation, every character of the input
\* outside all accepted entities' spans is in the redacted text, unchanged
\* and in its original order, for any in-range spans from the collaborators
\* and any replacement length, also when both models report the same span.
C30_OutsideTextPreserved ==
    pc = "validated_anonymized" =>
        IsSubsequence(Outside(payload.text, response.entities, 0), response.redacted)

====
